---- MODULE Spec2Model ----
(***************************************************************************)
(* A model of nix-download: the narinfo parser and signature verifier      *)
(* (fetchNarInfo, verifyNarInfoSignature, buildSignatureMessage), the      *)
(* closure resolver (discoverDependencies), the per-path pipeline          *)
(* (fetchAndManifestStorePath with the NAR extractor) and the worker pool  *)
(* (fetchAndManifestStorePaths).                                           *)
(*                                                                         *)
(* Text is a sequence of tokens.  A token is a string that the code never  *)
(* looks inside: a single character, or a literal the code handles whole   *)
(* ("/nix/store/", "sha256:", ": ").  NAR streams are sequences of bytes   *)
(* (integers 0..255).                                                      *)
(***************************************************************************)
EXTENDS Integers, Sequences, FiniteSets, TLC

\* ------------------------------------------------------------------ text

\* Tokens in ascending byte order of their first character (sort.Strings
\* and bytes.Compare order single-character tokens by their byte).
AsciiOrder ==
    << " ", "!", "+", ",", "-", ".", "/", "/nix/store/", "0", "1", "2", "3", "4",
       "5", "6", "7", "8", "9", ":", ";", "a", "b", "c", "d", "x", "y" >>

TokCode(t) == CHOOSE i \in 1..Len(AsciiOrder) : AsciiOrder[i] = t

RECURSIVE TextLess(_, _)
\* s < t, byte-lexicographically (Go's string comparison).
TextLess(s, t) ==
    IF t = <<>> THEN FALSE
    ELSE IF s = <<>> THEN TRUE
    ELSE IF Head(s) = Head(t) THEN TextLess(Tail(s), Tail(t))
    ELSE TokCode(Head(s)) < TokCode(Head(t))

\* Index of the first occurrence of token tok in s, 0 when absent.
IndexOf(s, tok) ==
    IF \E i \in 1..Len(s) : s[i] = tok
    THEN CHOOSE i \in 1..Len(s) : s[i] = tok /\ \A j \in 1..(i-1) : s[j] # tok
    ELSE 0

\* strings.Cut, i being the index of the separator in s, 0 when absent.
CutAt(s, i) ==
    IF i = 0 THEN [before |-> s, after |-> <<>>, found |-> FALSE]
    ELSE [before |-> SubSeq(s, 1, i-1), after |-> SubSeq(s, i+1, Len(s)),
          found |-> TRUE]

\* strings.Cut(s, sep) for a one-token separator.
Cut(s, sep) ==
    CHOOSE c \in { CutAt(t[1], t[2]) :
                    t \in { <<u, IndexOf(u, sep)>> : u \in { s } } } : TRUE

IsSpace(t) == t = " "

RECURSIVE FieldsAcc(_, _, _)
FieldsAcc(s, cur, acc) ==
    IF s = <<>> THEN (IF cur = <<>> THEN acc ELSE Append(acc, cur))
    ELSE IF IsSpace(Head(s))
         THEN FieldsAcc(Tail(s), <<>>, IF cur = <<>> THEN acc ELSE Append(acc, cur))
         ELSE FieldsAcc(Tail(s), Append(cur, Head(s)), acc)

\* strings.Fields: the maximal runs of non-space tokens.
Fields(s) == FieldsAcc(s, <<>>, <<>>)

RECURSIVE Join(_, _)
\* strings.Join(parts, sep) for a one-token separator.
Join(parts, sep) ==
    IF parts = <<>> THEN <<>>
    ELSE IF Len(parts) = 1 THEN parts[1]
    ELSE parts[1] \o <<sep>> \o Join(Tail(parts), sep)

RECURSIVE Insert(_, _)
Insert(sorted, s) ==
    IF sorted = <<>> THEN <<s>>
    ELSE IF TextLess(s, Head(sorted)) THEN <<s>> \o sorted
    ELSE <<Head(sorted)>> \o Insert(Tail(sorted), s)

RECURSIVE SortStrings(_)
\* sort.Strings: ascending, duplicates kept.
SortStrings(ss) ==
    IF ss = <<>> THEN <<>> ELSE Insert(SortStrings(Tail(ss)), Head(ss))

DigitToks == << "0", "1", "2", "3", "4", "5", "6", "7", "8", "9" >>

IsDigit(t) == \E i \in 1..10 : DigitToks[i] = t

DigitVal(t) == (CHOOSE i \in 1..10 : DigitToks[i] = t) - 1

RECURSIVE DecVal(_, _)
DecVal(ds, acc) ==
    IF ds = <<>> THEN acc ELSE DecVal(Tail(ds), acc * 10 + DigitVal(Head(ds)))

\* strconv.ParseInt(s, 10, 64): an optional sign and at least one digit.
ParseInt(s) ==
    LET signed == s # <<>> /\ Head(s) \in {"+", "-"}
        ds     == IF signed THEN Tail(s) ELSE s
    IN IF ds = <<>> \/ \E i \in 1..Len(ds) : ~IsDigit(ds[i])
       THEN [ok |-> FALSE, val |-> 0]
       ELSE [ok |-> TRUE,
             val |-> IF Head(s) = "-" THEN 0 - DecVal(ds, 0) ELSE DecVal(ds, 0)]

IsSlash(t) == t \in {"/", "/nix/store/"}

RECURSIVE StripSlashes(_)
StripSlashes(s) ==
    IF s # <<>> /\ IsSlash(s[Len(s)]) THEN StripSlashes(SubSeq(s, 1, Len(s) - 1))
    ELSE s

RECURSIVE LastElem(_)
LastElem(s) ==
    IF \E i \in 1..Len(s) : IsSlash(s[i])
    THEN LastElem(SubSeq(s, (CHOOSE i \in 1..Len(s) : IsSlash(s[i])) + 1, Len(s)))
    ELSE s

\* filepath.Base: the last element of the path.
PathBase(s) ==
    IF s = <<>> THEN <<".">>
    ELSE IF StripSlashes(s) = <<>> THEN <<"/">>
    ELSE LastElem(StripSlashes(s))

\* ------------------------------------------------- maps of string to string

EmptyMap == [k \in {} |-> <<>>]

MapPut(m, k, v) == [x \in (DOMAIN m) \cup {k} |-> IF x = k THEN v ELSE m[x]]

\* m[k] of a Go map: the zero value "" for a missing key.
MapGet(m, k) == IF k \in DOMAIN m THEN m[k] ELSE <<>>

\* ----------------------------------------------------------- configuration

\* substituters: the binary caches, tried in order.
substituters == << <<"s1">>, <<"s2">> >>

\* knownKeys: key name -> Ed25519 public key.
knownKeys == [n \in { <<"k1">> } |-> "pk1"]

\* ------------------------------------------------- external primitives

\* The secret key that pairs with a public key.
SecretOf(pub) == IF pub = "pk1" THEN "sk1" ELSE "sk2"

\* An Ed25519 signature, as text: determined by the secret key and the message.
Sign(secret, message) == <<secret>> \o message

\* ed25519.Verify(publicKey, message, signature).
Ed25519Verify(pub, message, sig) == sig = Sign(SecretOf(pub), message)

\* base64.StdEncoding.DecodeString: "!" is outside the base64 alphabet.
Base64Decode(s) ==
    IF \E i \in 1..Len(s) : s[i] = "!" THEN [ok |-> FALSE, val |-> <<>>]
    ELSE [ok |-> TRUE, val |-> s]

NotFound == [neterr |-> FALSE, status |-> 404, body |-> <<>>]

\* http.Client.Get against the webs: web maps a URL to the response.
HttpGet(web, url) == IF url \in DOMAIN web THEN web[url] ELSE NotFound

\* ---------------------------------------------------------------- narinfo

StoreCanon == <<"/nix/store/">>

RECURSIVE PrefixAll(_)
PrefixAll(refs) ==
    IF refs = <<>> THEN <<>>
    ELSE << StoreCanon \o Head(refs) >> \o PrefixAll(Tail(refs))

buildSignatureMessage(narInfo) ==
    LET refs  == Fields(MapGet(narInfo, <<"References">>))
        paths == PrefixAll(refs)
    IN <<"1", ";">> \o MapGet(narInfo, <<"StorePath">>) \o <<";">>
       \o MapGet(narInfo, <<"NarHash">>) \o <<";">>
       \o MapGet(narInfo, <<"NarSize">>) \o <<";">>
       \o Join(paths, ",")

\* verifyNarInfoSignature, sigParts being what strings.Cut(sig, ":") returned.
VerifyParts(narInfo, sigParts) ==
    IF ~sigParts.found THEN "invalid signature format"
    ELSE IF sigParts.before \notin DOMAIN knownKeys THEN "unknown key"
    ELSE
      LET signature == Base64Decode(sigParts.after)
      IN IF ~signature.ok THEN "invalid signature encoding"
         ELSE IF ~Ed25519Verify(knownKeys[sigParts.before],
                                buildSignatureMessage(narInfo), signature.val)
              THEN "invalid signature"
              ELSE ""

\* The error verifyNarInfoSignature returns, "" for nil.
verifyNarInfoSignature(narInfo) ==
    IF <<"Sig">> \notin DOMAIN narInfo THEN "no signature found in narinfo"
    ELSE CHOOSE e \in { VerifyParts(narInfo, sigParts) :
                         sigParts \in { Cut(narInfo[<<"Sig">>], ":") } } : TRUE

NoScan == [narInfo |-> EmptyMap, references |-> <<>>, narURL |-> <<>>,
           infoStorePath |-> <<>>]

\* One iteration of the scanner loop of fetchNarInfo, c being what
\* strings.Cut(line, ": ") returned.
ScanCut(st, c, substituter) ==
       IF ~c.found THEN st
       ELSE [narInfo       |-> MapPut(st.narInfo, c.before, c.after),
             references    |-> IF c.before = <<"References">> THEN Fields(c.after)
                               ELSE st.references,
             narURL        |-> IF c.before = <<"URL">>
                               THEN substituter \o <<"/">> \o c.after
                               ELSE st.narURL,
             infoStorePath |-> IF c.before = <<"StorePath">> THEN c.after
                               ELSE st.infoStorePath]

\* One iteration of the scanner loop of fetchNarInfo.
ScanLine(st, line, substituter) ==
    CHOOSE n \in { ScanCut(st, c, substituter) : c \in { Cut(line, ": ") } } : TRUE

RECURSIVE ScanLines(_, _, _)
ScanLines(st, lines, substituter) ==
    IF lines = <<>> THEN st
    ELSE CHOOSE r \in { ScanLines(n, Tail(lines), substituter) :
                         n \in { ScanLine(st, Head(lines), substituter) } } : TRUE

NarInfoURL(substituter, hash) == substituter \o <<"/">> \o hash \o <<".narinfo">>

NoStorePath == [BasePath |-> <<>>, References |-> <<>>, NarURL |-> <<>>,
                Compression |-> <<>>, NarSize |-> 0, NarHash |-> <<>>]

Failed(msg) == [err |-> msg, sp |-> NoStorePath]

\* The loop without its break: it always ends at the last substituter.
LoopEnd_NoBreak(web, hash) == Len(substituters)

\* The substituter loop of fetchNarInfo: the index at which the loop ends (the
\* first substituter that answers 200, else the last one).
LoopEnd(web, hash) ==
    LET ok(i) == LET r == HttpGet(web, NarInfoURL(substituters[i], hash))
                 IN ~r.neterr /\ r.status = 200
    IN IF \E i \in 1..Len(substituters) : ok(i)
       THEN CHOOSE i \in 1..Len(substituters) : ok(i) /\ \A j \in 1..(i-1) : ~ok(j)
       ELSE Len(substituters)

\* CheckNarInfo without the comparison of the StorePath field.
CheckNarInfo_NoStorePathCheck(storeBase, st) ==
    LET sigErr    == verifyNarInfoSignature(st.narInfo)
        narSize   == ParseInt(MapGet(st.narInfo, <<"NarSize">>))
        narHash   == MapGet(st.narInfo, <<"NarHash">>)
    IN IF sigErr # "" THEN Failed("signature verification failed")
       ELSE IF ~narSize.ok THEN Failed("invalid NarSize")
       ELSE IF narHash = <<>> \/ Head(narHash) # "sha256:"
            THEN Failed("unsupported hash algorithm")
       ELSE [err |-> "",
             sp  |-> [BasePath    |-> storeBase,
                      References  |-> SortStrings(st.references),
                      NarURL      |-> st.narURL,
                      Compression |-> MapGet(st.narInfo, <<"Compression">>),
                      NarSize     |-> narSize.val,
                      NarHash     |-> narHash]]

\* The checks of fetchNarInfo on the scanned body.
CheckNarInfo(storeBase, st) ==
    LET storePath == StoreCanon \o storeBase
        sigErr    == verifyNarInfoSignature(st.narInfo)
        narSize   == ParseInt(MapGet(st.narInfo, <<"NarSize">>))
        narHash   == MapGet(st.narInfo, <<"NarHash">>)
    IN IF storePath # st.infoStorePath THEN Failed("unexpected narinfo store path")
       ELSE IF sigErr # "" THEN Failed("signature verification failed")
       ELSE IF ~narSize.ok THEN Failed("invalid NarSize")
       ELSE IF narHash = <<>> \/ Head(narHash) # "sha256:"
            THEN Failed("unsupported hash algorithm")
       ELSE [err |-> "",
             sp  |-> [BasePath    |-> storeBase,
                      References  |-> SortStrings(st.references),
                      NarURL      |-> st.narURL,
                      Compression |-> MapGet(st.narInfo, <<"Compression">>),
                      NarSize     |-> narSize.val,
                      NarHash     |-> narHash]]

\* fetchNarInfo after its loop, resp being the response the loop ended with
\* and substituter the value of the loop variable.
AfterLoop(storeBase, resp, substituter) ==
    IF resp.neterr THEN Failed("transport error")
    ELSE IF resp.status # 200 THEN Failed("failed to fetch narinfo")
    ELSE CHOOSE r \in { CheckNarInfo(storeBase, st) :
                         st \in { ScanLines(NoScan, resp.body, substituter) } } : TRUE

\* fetchNarInfo, the loop having ended at substituter number last.
EndedAt(storeBase, web, hash, last) ==
    CHOOSE r \in { AfterLoop(storeBase, resp, substituters[last]) :
                    resp \in { HttpGet(web, NarInfoURL(substituters[last], hash)) } } : TRUE

\* fetchNarInfo, hash being the part of the base name before the first "-".
FetchHash(storeBase, web, hash) ==
    CHOOSE r \in { EndedAt(storeBase, web, hash, last) :
                    last \in { LoopEnd(web, hash) } } : TRUE

\* fetchNarInfo(storeBase): [err, sp], err = "" for nil.  Each intermediate
\* value is computed once.
fetchNarInfo(storeBase, web) ==
    CHOOSE r \in { CHOOSE q \in { FetchHash(b, web, hash) :
                                   hash \in { Cut(PathBase(b), "-").before } } : TRUE :
                    b \in { storeBase } } : TRUE

\* strings.TrimPrefix(s, prefix) for a one-token prefix.
TrimPrefix(s, prefix) == IF s # <<>> /\ Head(s) = prefix THEN Tail(s) ELSE s

\* ------------------------------------------------------------ the caches
\* What a cache publishes and what an attacker on the path can serve instead.

BaseA == <<"a", "-", "x">>
BaseB == <<"b", "-", "y">>
BaseC == <<"c", "-", "x">>
BaseD == <<"d", "-", "y">>

\* Bound: the number of Sig lines a served narinfo carries, at most.
MaxSigs == 2

HashOf(base) == Cut(base, "-").before

\* The fingerprint the signer of a cache signs: of a store path, its NAR hash and
\* size (as text) and the list of its references.
Fingerprint(sp, nh, ns, refList) ==
    <<"1", ";">> \o sp \o <<";">> \o nh \o <<";">> \o ns \o <<";">>
    \o Join([i \in 1..Len(refList) |-> StoreCanon \o refList[i]], ",")

Line(key, value) == <<key, ": ">> \o value

\* The narinfo text of fields f with the Sig lines sigs.
Body(f, sigs) ==
    << Line("StorePath", f.sp), Line("URL", f.url), Line("Compression", f.comp),
       Line("NarHash", f.nh), Line("NarSize", f.ns), Line("References", f.refs),
       <<"no separator">> >>
    \o [i \in 1..Len(sigs) |-> Line("Sig", sigs[i])]

\* The fields a cache publishes for base with the references refList.
Published(base, nh, ns, refList) ==
    [sp |-> StoreCanon \o base, url |-> <<"nar", "/">> \o HashOf(base) \o <<".nar">>,
     comp |-> <<"none">>, nh |-> nh, ns |-> ns, refs |-> Join(refList, " "),
     refList |-> refList]

NIOrigs ==
    { Published(BaseA, <<"sha256:", "0", "1">>, <<"2", "4">>, <<BaseB, BaseC>>),
      Published(BaseB, <<"sha256:", "0", "2">>, <<"8">>, <<>>) }

Mutations ==
    { "none", "sp_other", "sp_root", "nh_other", "nh_algo", "ns_other", "ns_bad",
      "ns_neg", "refs_swap", "refs_drop", "refs_add", "refs_space", "refs_comma" }

RECURSIVE Reverse(_)
Reverse(s) == IF s = <<>> THEN <<>> ELSE Append(Reverse(Tail(s)), Head(s))

\* The fields f with one field changed.
Mutate(f, m) ==
    CASE m = "sp_other"   -> [f EXCEPT !.sp = StoreCanon \o BaseD]
      [] m = "sp_root"    -> [f EXCEPT !.sp = <<"/custom/">> \o Tail(f.sp)]
      [] m = "nh_other"   -> [f EXCEPT !.nh = <<"sha256:", "0", "3">>]
      [] m = "nh_algo"    -> [f EXCEPT !.nh = <<"md5:", "0", "1">>]
      [] m = "ns_other"   -> [f EXCEPT !.ns = <<"9">>]
      [] m = "ns_bad"     -> [f EXCEPT !.ns = <<"x">>]
      [] m = "ns_neg"     -> [f EXCEPT !.ns = <<"-", "1">>]
      [] m = "refs_swap"  -> [f EXCEPT !.refs = Join(Reverse(f.refList), " ")]
      [] m = "refs_drop"  -> [f EXCEPT !.refs = <<>>]
      [] m = "refs_add"   -> [f EXCEPT !.refs = Join(Append(f.refList, BaseD), " ")]
      [] m = "refs_space" -> [f EXCEPT !.refs = <<" ">> \o Join(f.refList, " ")]
      [] m = "refs_comma" -> [f EXCEPT !.refs =
                                Join([i \in 1..Len(f.refList) |->
                                        IF i = 1 THEN f.refList[i]
                                        ELSE StoreCanon \o f.refList[i]], ",")]
      [] OTHER            -> f

SigKinds == { "good", "unknown", "forged", "nocolon", "badb64" }

\* A Sig value over the published fields f.
SigText(kind, f) ==
    LET fp == Fingerprint(f.sp, f.nh, f.ns, f.refList)
    IN CASE kind = "good"    -> <<"k1", ":">> \o Sign("sk1", fp)
         [] kind = "unknown" -> <<"k2", ":">> \o Sign("sk2", fp)
         [] kind = "forged"  -> <<"k1", ":">> \o Sign("sk2", fp)
         [] kind = "nocolon" -> <<"k1">>
         [] OTHER            -> <<"k1", ":", "!">>

SigSeqs == UNION { [1..n -> SigKinds] : n \in 0..MaxSigs }

HttpModes ==
    { "first", "second", "second_neterr", "both", "none_404", "none_neterr",
      "all_404", "all_neterr" }

Ok200(body) == [neterr |-> FALSE, status |-> 200, body |-> body]
NetErr == [neterr |-> TRUE, status |-> 0, body |-> <<>>]

\* What the two substituters answer for hash, by mode.
CacheFor(mode, hash, body) ==
    LET u1 == NarInfoURL(substituters[1], hash)
        u2 == NarInfoURL(substituters[2], hash)
    IN [u \in {u1, u2} |->
          CASE mode = "first"         -> IF u = u1 THEN Ok200(body) ELSE NotFound
            [] mode = "second"        -> IF u = u1 THEN NotFound ELSE Ok200(body)
            [] mode = "second_neterr" -> IF u = u1 THEN NetErr ELSE Ok200(body)
            [] mode = "both"          -> Ok200(body)
            [] mode = "all_404"       -> NotFound
            [] mode = "all_neterr"    -> NetErr
            [] mode = "none_404"      -> IF u = u1 THEN NetErr ELSE NotFound
            [] OTHER                  -> IF u = u1 THEN NotFound ELSE NetErr]

\* ------------------------------------------------- bytes and the NAR reader

Min(a, b) == IF a < b THEN a ELSE b

Max(a, b) == IF a > b THEN a ELSE b

\* The tokens of the NAR grammar, as bytes.
TokMagic == <<110, 105, 120, 45, 97, 114, 99, 104, 105, 118, 101, 45, 49>>   \* "nix-archive-1"
TokOpen == <<40>>   \* "("
TokClose == <<41>>   \* ")"
TokType == <<116, 121, 112, 101>>   \* "type"
TokRegular == <<114, 101, 103, 117, 108, 97, 114>>   \* "regular"
TokSymlink == <<115, 121, 109, 108, 105, 110, 107>>   \* "symlink"
TokDirectory == <<100, 105, 114, 101, 99, 116, 111, 114, 121>>   \* "directory"
TokExecutable == <<101, 120, 101, 99, 117, 116, 97, 98, 108, 101>>   \* "executable"
TokContents == <<99, 111, 110, 116, 101, 110, 116, 115>>   \* "contents"
TokTarget == <<116, 97, 114, 103, 101, 116>>   \* "target"
TokEntry == <<101, 110, 116, 114, 121>>   \* "entry"
TokName == <<110, 97, 109, 101>>   \* "name"
TokNode == <<110, 111, 100, 101>>   \* "node"

\* Should be more then enough
maxStringLength == 16384

\* The magnitude that stands for every length beyond 31 bits; a multiple of 8.
Huge == 1073741824

\* The int64 that binary.Read decodes from 8 little-endian bytes.  A value
\* within 31 bits is exact; a value beyond is replaced by one of the same sign
\* and the same remainder by 8 as Go's % gives, of magnitude Huge at least.
DecodeInt64(bs) ==
    LET low == bs[1] + 256 * bs[2] + 65536 * bs[3] + 16777216 * (bs[4] % 128)
        hi0 == \A i \in 5..8 : bs[i] = 0
        hi1 == \A i \in 5..8 : bs[i] = 255
    IN IF hi0 /\ bs[4] < 128 THEN low
       ELSE IF hi1 /\ bs[4] >= 128 THEN low - 2147483647 - 1
       ELSE IF bs[8] < 128 THEN Huge + (bs[1] % 8)
       ELSE 0 - Huge - ((8 - (bs[1] % 8)) % 8)

\* Go's x % 8 on an int64: the sign of the dividend.
Rem8(x) == IF x >= 0 THEN x % 8 ELSE 0 - ((0 - x) % 8)

\* (8 - (length % 8)) % 8
Padding(length) == Rem8(8 - Rem8(length))

\* The bytes the reader can still deliver, with no limit on the stream.
Available_Unlimited(rd) == Max(Len(rd.stream) - rd.pos, 0)

\* The bytes the reader can still deliver: the decompressed stream, cut by
\* io.LimitReader(reader, sp.NarSize) (no byte when NarSize <= 0).
Available(rd) == Max(Min(Len(rd.stream), rd.limit) - rd.pos, 0)

\* ReadFull, got bytes being delivered.
ReadGot(rd, n, got) ==
    [data |-> SubSeq(rd.stream, rd.pos + 1, rd.pos + got),
     rd   |-> [rd EXCEPT !.pos = rd.pos + got],
     err  |-> IF got = n THEN ""
              ELSE IF got = 0 THEN "EOF" ELSE "unexpected EOF"]

\* io.ReadFull(ne.reader, buf) for len(buf) = n >= 0: the bytes read, which the
\* TeeReader hands to the hasher, and the error.
ReadFull(rd, n) == ReadGot(rd, n, Min(n, Available(rd)))

\* readInt64, r being what binary.Read has read.
Int64Of(r) ==
    IF r.err # "" THEN [val |-> 0, rd |-> r.rd, err |-> "failed to read int64"]
    ELSE [val |-> DecodeInt64(r.data), rd |-> r.rd, err |-> ""]

\* readInt64: [val, rd, err].
readInt64(rd) == CHOOSE v \in { Int64Of(r) : r \in { ReadFull(rd, 8) } } : TRUE

\* readString, r being what io.ReadFull(ne.reader, data) has read.
StringOf(r, length) ==
    IF r.err # "" THEN [str |-> <<>>, rd |-> r.rd, err |-> "failed to read string data"]
    ELSE [str |-> SubSeq(r.data, 1, length), rd |-> r.rd, err |-> ""]

\* readString, l being the length read; err = "panic" when
\* make([]byte, length+padding) or data[:len(data)-padding] panics.
StringAfter(l) ==
    IF l.err # "" THEN [str |-> <<>>, rd |-> l.rd, err |-> l.err]
    ELSE IF l.val > maxStringLength
         THEN [str |-> <<>>, rd |-> l.rd, err |-> "string length exceeds maximum"]
    ELSE IF l.val < 0 THEN [str |-> <<>>, rd |-> l.rd, err |-> "panic"]
    ELSE CHOOSE s \in { StringOf(r, l.val) :
                         r \in { ReadFull(l.rd, l.val + Padding(l.val)) } } : TRUE

\* readString past the pushback slot: [str, rd, err].
readStringFrom(rd) == CHOOSE s \in { StringAfter(l) : l \in { readInt64(rd) } } : TRUE

\* io.CopyN, got bytes being copied.
Copied(rd, n, got) ==
    [rd  |-> [rd EXCEPT !.pos = rd.pos + got],
     err |-> IF n > 0 /\ got < n THEN "EOF" ELSE ""]

\* io.CopyN(fd, ne.reader, n): [rd, err]; a negative n copies nothing and is no
\* error.
CopyN(rd, n) == Copied(rd, n, Min(Max(n, 0), Available(rd)))

\* ------------------------------------------------- hashing

\* Bound: the number of bytes of a digest (32 for SHA-256).
DigestSize == 2

RECURSIVE Pow2(_)
Pow2(k) == IF k = 0 THEN 1 ELSE 2 * Pow2(k - 1)

RECURSIVE Digest(_, _, _)
\* A digest of bytes[lo..hi]: every byte weighted by its position.  The range
\* is halved to keep the evaluation shallow, the midpoint computed once.
Digest(bytes, lo, hi) ==
    IF lo > hi THEN 0
    ELSE IF lo = hi THEN (bytes[lo] + 1) * ((lo % 251) + 1)
    ELSE CHOOSE v \in { Digest(bytes, lo, mid) + Digest(bytes, mid + 1, hi) :
                        mid \in { (lo + hi) \div 2 } } : TRUE

\* The digest of b as a number below 256^DigestSize.
DigestOf(b) == (7 + 31 * Len(b) + Digest(b, 1, Len(b))) % Pow2(8 * DigestSize)

\* sha256.New(), Write and Sum(nil): the digest, as bytes (most significant
\* first); the input and the number are computed once.
Sha256(bytes) ==
    CHOOSE d \in { [k \in 1..DigestSize |-> (h \div Pow2(8 * (DigestSize - k))) % 256] :
                   h \in { DigestOf(b) : b \in { bytes } } } : TRUE

nix32Chars ==
    << "0", "1", "2", "3", "4", "5", "6", "7", "8", "9", "a", "b", "c", "d", "f", "g",
       "h", "i", "j", "k", "l", "m", "n", "p", "q", "r", "s", "v", "w", "x", "y", "z" >>

nixBase32Encode(hash) ==
    LET hashSize == Len(hash)
        len      == (hashSize * 8 - 1) \div 5 + 1
        char(n)  ==
            LET b  == n * 5
                i  == b \div 8
                j  == b % 8
                lo == IF i < hashSize THEN hash[i + 1] \div Pow2(j) ELSE 0
                hi == IF i + 1 < hashSize THEN (hash[i + 2] * Pow2(8 - j)) % 256 ELSE 0
            IN nix32Chars[((lo + hi) % 32) + 1]
    IN [k \in 1..len |-> char(len - k)]

\* "sha256:" + nixBase32Encode(narHasher.Sum(nil))
HashText(bytes) == <<"sha256:">> \o nixBase32Encode(Sha256(bytes))

\* ------------------------------------------------- the store directory
\* dir maps a path relative to the store root (a sequence of names; the empty
\* sequence is the store root itself) to the kind of the entry there: "dir",
\* "file", "xfile" (mode 0755), "symlink_ok" (a symlink whose target exists, a
\* directory) or "symlink_dangling".  A path that starts with ".." lies outside
\* the store root, where nothing is recorded and nothing can be created.

\* os.Stat succeeds: the entry exists and, being followed, does not end at a
\* symlink whose target is missing.
StatOk(dir, path) == path \in DOMAIN dir /\ dir[path] # "symlink_dangling"

\* The entry exists (os.Lstat succeeds).
Exists(dir, path) == path \in DOMAIN dir

IsPrefix(p, q) == Len(p) <= Len(q) /\ SubSeq(q, 1, Len(p)) = p

\* The parent of path leads to a directory: it is one, or a symlink to one,
\* which the system follows.
ParentIsDir(dir, path) ==
    /\ path # <<>>
    /\ LET parent == SubSeq(path, 1, Len(path) - 1)
       IN parent \in DOMAIN dir /\ dir[parent] \in { "dir", "symlink_ok" }

\* os.Mkdir, os.OpenFile(O_CREATE|O_EXCL) and os.Symlink create an entry where
\* there is none.
CanCreate(dir, path) == path \notin DOMAIN dir /\ ParentIsDir(dir, path)

Create(dir, path, kind) ==
    [q \in (DOMAIN dir) \cup { path } |-> IF q = path THEN kind ELSE dir[q]]

\* The store directory with nothing in it.
RootOnly == [q \in { <<>> } |-> "dir"]

\* os.MkdirAll(filepath.Dir(topDir), 0755), topDir standing right under the
\* store root: the store root is made when it is missing.
MkdirAllParent(dir) == IF <<>> \in DOMAIN dir THEN dir ELSE Create(dir, <<>>, "dir")

RECURSIVE ElementsAcc(_, _, _)
ElementsAcc(name, cur, acc) ==
    IF name = <<>> THEN (IF cur = <<>> THEN acc ELSE Append(acc, cur))
    ELSE IF Head(name) = 47
         THEN ElementsAcc(Tail(name), <<>>, IF cur = <<>> THEN acc ELSE Append(acc, cur))
         ELSE ElementsAcc(Tail(name), Append(cur, Head(name)), acc)

\* The elements of a name between its slashes, the empty ones dropped.
Elements(name) == ElementsAcc(name, <<>>, <<>>)

RECURSIVE CleanAcc(_, _)
CleanAcc(elems, acc) ==
    IF elems = <<>> THEN acc
    ELSE IF Head(elems) = <<46>> THEN CleanAcc(Tail(elems), acc)
    ELSE IF Head(elems) = <<46, 46>> /\ acc # <<>> /\ acc[Len(acc)] # <<46, 46>>
         THEN CleanAcc(Tail(elems), SubSeq(acc, 1, Len(acc) - 1))
    ELSE CleanAcc(Tail(elems), Append(acc, Head(elems)))

\* filepath.Clean of a relative path given by its elements: "." is dropped
\* and ".." takes the element before it away, or stays when there is none.
Clean(elems) == CleanAcc(elems, <<>>)

\* filepath.Join(path, name), path being clean: the name is split at its
\* slashes and the whole cleaned.
JoinName(path, name) == Clean(path \o Elements(name))

\* filepath.Join(ne.topDir, path), relative to the store root.
FullPath(top, path) == Clean(top \o path)

\* os.RemoveAll(path): the entry and everything beneath it.
RemoveAll(dir, path) ==
    [q \in { r \in DOMAIN dir : ~IsPrefix(path, r) } |-> dir[q]]

\* A symlink target that exists wherever the link stands: "." or "/".
TargetExists(target) == target \in { <<46>>, <<47>> }

\* os.Rename(old, new) succeeds: old exists and new is absent, or an empty
\* directory under a directory, or not a directory under a non-directory.
RenameOk(dir, old, new) ==
    /\ Exists(dir, old)
    /\ \/ ~Exists(dir, new)
       \/ /\ dir[old] = "dir" /\ dir[new] = "dir"
          /\ \A q \in DOMAIN dir : IsPrefix(new, q) => q = new
       \/ dir[old] # "dir" /\ dir[new] # "dir"

\* The store directory after os.Rename(old, new) has succeeded.
Rename(dir, old, new) ==
    LET rest  == RemoveAll(RemoveAll(dir, new), old)
        moved == { q \in DOMAIN dir : IsPrefix(old, q) }
        to(q) == new \o SubSeq(q, Len(old) + 1, Len(q))
    IN [r \in (DOMAIN rest) \cup { to(q) : q \in moved } |->
           IF r \in DOMAIN rest THEN rest[r]
           ELSE dir[CHOOSE q \in moved : to(q) = r]]

\* ---------------------------------------------------------- NAR extractor
\* The extractor is a record x: rd (the reader: stream, limit, pos), top (the
\* path of topDir), haveNext and nextString (the pushback slot), err, and
\* stack, the calls still to make, innermost first.

Item(op, path, str, n) == [op |-> op, path |-> path, str |-> str, n |-> n]

Expect(str) == Item("expect", <<>>, str, 0)

\* extractNarObj(path): "(" "type" <kind and body> ")".
NodeItems(path) ==
    << Expect(TokOpen), Expect(TokType), Item("objtype", path, <<>>, 0),
       Expect(TokClose) >>

NewNarExtractor(stream, limit, top) ==
    [rd |-> [stream |-> stream, limit |-> limit, pos |-> 0], top |-> top,
     haveNext |-> FALSE, nextString |-> <<>>, err |-> "",
     stack |-> << Item("magic", <<>>, <<>>, 0) >>]

\* readString, r being what was read past the pushback slot.
StringRead(x, r) == [str |-> r.str, x |-> [x EXCEPT !.rd = r.rd], err |-> r.err]

\* ne.readString(): [str, x, err].
readString(x) ==
    IF x.haveNext
    THEN [str |-> x.nextString,
          x   |-> [x EXCEPT !.haveNext = FALSE, !.nextString = <<>>],
          err |-> ""]
    ELSE CHOOSE s \in { StringRead(x, r) : r \in { readStringFrom(x.rd) } } : TRUE

\* The extractor stopped by an error.
Stop(x, err) == [x EXCEPT !.err = err, !.stack = <<>>]

\* The extractor with the top of its stack replaced by items.
Go(x, items) == [x EXCEPT !.stack = items \o Tail(x.stack)]

RECURSIVE BytesLess_OrEqual(_, _)
\* bytes.Compare(a, b) <= 0
BytesLess_OrEqual(a, b) ==
    IF a = <<>> THEN TRUE
    ELSE IF b = <<>> THEN FALSE
    ELSE IF Head(a) = Head(b) THEN BytesLess_OrEqual(Tail(a), Tail(b))
    ELSE Head(a) < Head(b)

RECURSIVE BytesLess(_, _)
\* bytes.Compare(a, b) < 0
BytesLess(a, b) ==
    IF b = <<>> THEN FALSE
    ELSE IF a = <<>> THEN TRUE
    ELSE IF Head(a) = Head(b) THEN BytesLess(Tail(a), Tail(b))
    ELSE Head(a) < Head(b)

\* The test without its case for "..".
isValidPathComponent_NoDotDot(name) ==
    /\ name # <<>>
    /\ name # <<46>>
    /\ \A i \in 1..Len(name) : name[i] # 47

\* The test without its case for names that hold a slash.
isValidPathComponent_NoSlash(name) ==
    /\ name # <<>>
    /\ name # <<46>>
    /\ name # <<46, 46>>

isValidPathComponent(name) ==
    /\ name # <<>>
    /\ name # <<46>>
    /\ name # <<46, 46>>
    /\ \A i \in 1..Len(name) : name[i] # 47

\* Each step below is given r, what ne.readString() returned, and it, the
\* call at the top of the stack.

\* Extract: the magic, then the parent of topDir made.
XMagic(r, dir) ==
    IF r.err # "" THEN [x |-> Stop(r.x, r.err), dir |-> dir]
    ELSE IF r.str # TokMagic THEN [x |-> Stop(r.x, "invalid NAR magic"), dir |-> dir]
    ELSE [x |-> Go(r.x, NodeItems(<<>>)), dir |-> MkdirAllParent(dir)]

\* expectString(expected)
XExpect(r, it, dir) ==
    IF r.err # "" THEN [x |-> Stop(r.x, r.err), dir |-> dir]
    ELSE IF r.str # it.str THEN [x |-> Stop(r.x, "expected"), dir |-> dir]
    ELSE [x |-> Go(r.x, <<>>), dir |-> dir]

\* extractNarObj: the object type; extractDirectory creates its directory first.
XObjType(r, it, dir) ==
    IF r.err # "" THEN [x |-> Stop(r.x, r.err), dir |-> dir]
    ELSE IF r.str = TokRegular
         THEN [x |-> Go(r.x, << Item("regular", it.path, <<>>, 0) >>), dir |-> dir]
    ELSE IF r.str = TokSymlink
         THEN [x |-> Go(r.x, << Expect(TokTarget), Item("target", it.path, <<>>, 0) >>),
               dir |-> dir]
    ELSE IF r.str = TokDirectory
         THEN IF CanCreate(dir, FullPath(r.x.top, it.path))
              THEN [x |-> Go(r.x, << Item("entries", it.path, <<>>, 0) >>),
                    dir |-> Create(dir, FullPath(r.x.top, it.path), "dir")]
              ELSE [x |-> Stop(r.x, "failed to create directory"), dir |-> dir]
    ELSE [x |-> Stop(r.x, "unknown object type"), dir |-> dir]

\* extractRegular: the field after the type.
XRegular(r, it, dir) ==
    IF r.err # "" THEN [x |-> Stop(r.x, r.err), dir |-> dir]
    ELSE IF r.str = TokExecutable
         THEN [x |-> Go(r.x, << Expect(<<>>), Item("contents", it.path, <<>>, 493) >>),
               dir |-> dir]
    ELSE IF r.str # TokContents THEN [x |-> Stop(r.x, "expected 'contents'"), dir |-> dir]
    ELSE [x |-> Go(r.x, << Item("write", it.path, <<>>, 420) >>), dir |-> dir]

\* extractRegular: the field after "executable" "".
XContents(r, it, dir) ==
    IF r.err # "" THEN [x |-> Stop(r.x, r.err), dir |-> dir]
    ELSE IF r.str # TokContents THEN [x |-> Stop(r.x, "expected 'contents'"), dir |-> dir]
    ELSE [x |-> Go(r.x, << Item("write", it.path, <<>>, it.n) >>), dir |-> dir]

\* The kind of the file that os.OpenFile creates with perm.
FileKind(perm) == IF perm = 493 THEN "xfile" ELSE "file"

\* writeFile, c being what io.CopyN returned, and the padding left to read.
XWritten(x, it, l, c, dir) ==
    IF c.err # ""
    THEN [x   |-> Stop([x EXCEPT !.rd = c.rd], "failed to write file"),
          dir |-> Create(dir, FullPath(x.top, it.path), FileKind(it.n))]
    ELSE [x   |-> Go([x EXCEPT !.rd = c.rd], << Item("padding", it.path, <<>>, l.val) >>),
          dir |-> Create(dir, FullPath(x.top, it.path), FileKind(it.n))]

\* extractRegular: the length l read by readInt64, and writeFile.
XWrite(x, it, l, dir) ==
    IF l.err # ""
    THEN [x |-> Stop([x EXCEPT !.rd = l.rd], "failed to read file length"), dir |-> dir]
    ELSE IF ~CanCreate(dir, FullPath(x.top, it.path))
         THEN [x |-> Stop([x EXCEPT !.rd = l.rd], "failed to write file"), dir |-> dir]
    ELSE CHOOSE s \in { XWritten(x, it, l, c, dir) : c \in { CopyN(l.rd, l.val) } } : TRUE

\* extractRegular: the padding after the contents, r being what io.ReadFull read.
XPadding(x, padding, r, dir) ==
    IF padding > 0 /\ r.err # ""
    THEN [x |-> Stop([x EXCEPT !.rd = r.rd], "failed to read file padding"), dir |-> dir]
    ELSE [x |-> Go([x EXCEPT !.rd = r.rd], <<>>), dir |-> dir]

\* extractSymlink: the target and os.Symlink.
XTarget(r, it, dir) ==
    IF r.err # "" THEN [x |-> Stop(r.x, r.err), dir |-> dir]
    ELSE IF ~CanCreate(dir, FullPath(r.x.top, it.path))
         THEN [x |-> Stop(r.x, "failed to create symlink"), dir |-> dir]
    ELSE [x   |-> Go(r.x, <<>>),
          dir |-> Create(dir, FullPath(r.x.top, it.path),
                         IF TargetExists(r.str) THEN "symlink_ok" ELSE "symlink_dangling")]

\* extractDirectory: the head of the loop.  The error of readString is never
\* io.EOF itself (readInt64 and readString wrap it), so the loop ends only at
\* a string that is not "entry".
XEntries(r, it, dir) ==
    IF r.err # "" THEN [x |-> Stop(r.x, r.err), dir |-> dir]
    ELSE IF r.str # TokEntry
         THEN [x |-> Go([r.x EXCEPT !.haveNext = TRUE, !.nextString = r.str], <<>>),
               dir |-> dir]
    ELSE [x |-> Go(r.x, << Expect(TokOpen), Expect(TokName),
                          Item("entryname", it.path, it.str, 0) >>),
          dir |-> dir]

\* extractDirectory: the name of an entry, its node, and prev = name.
XEntryName(r, it, dir) ==
    IF r.err # "" THEN [x |-> Stop(r.x, r.err), dir |-> dir]
    ELSE IF ~isValidPathComponent(r.str)
         THEN [x |-> Stop(r.x, "invalid path component"), dir |-> dir]
    ELSE IF it.str # <<>> /\ ~BytesLess(it.str, r.str)
         THEN [x |-> Stop(r.x, "path components not sorted"), dir |-> dir]
    ELSE [x |-> Go(r.x, << Expect(TokNode) >> \o NodeItems(JoinName(it.path, r.str))
                        \o << Expect(TokClose), Item("entries", it.path, r.str, 0) >>),
          dir |-> dir]

\* What the call it at the top of the stack reads first.
XRead(x, it) ==
    CASE it.op = "write"   -> readInt64(x.rd)
      [] it.op = "padding" -> ReadFull(x.rd, Padding(it.n))
      [] OTHER             -> readString(x)

\* The call it at the top of the stack, r being what it has read.
XMade(x, it, r, dir) ==
    CASE it.op = "magic"     -> XMagic(r, dir)
      [] it.op = "expect"    -> XExpect(r, it, dir)
      [] it.op = "objtype"   -> XObjType(r, it, dir)
      [] it.op = "regular"   -> XRegular(r, it, dir)
      [] it.op = "contents"  -> XContents(r, it, dir)
      [] it.op = "write"     -> XWrite(x, it, r, dir)
      [] it.op = "padding"   -> XPadding(x, Padding(it.n), r, dir)
      [] it.op = "target"    -> XTarget(r, it, dir)
      [] it.op = "entries"   -> XEntries(r, it, dir)
      [] OTHER               -> XEntryName(r, it, dir)

\* The call it at the top of the stack, made; what it reads is read once.
XCall(x, it, dir) == CHOOSE s \in { XMade(x, it, r, dir) : r \in { XRead(x, it) } } : TRUE

\* One call of the extractor: the top of the stack.
XStep(x, dir) == XCall(x, Head(x.stack), dir)

RECURSIVE XRun(_, _)
\* The extractor run from s, the store directory being dir before s: it runs
\* on while it has calls to make and has not touched the store directory.
XRunOn(s, dir) == IF s.x.stack = <<>> \/ s.dir # dir THEN s ELSE XRun(s.x, s.dir)

\* The extractor run up to its next operation on the store directory, that
\* operation included, or to its end.
XRun(x, dir) == CHOOSE r \in { XRunOn(s, dir) : s \in { XStep(x, dir) } } : TRUE

\* ---------------------------------------------------------------- resolver

RECURSIVE Unvisited(_, _)
\* The references not in visited, in order.
Unvisited(refs, visited) ==
    IF refs = <<>> THEN <<>>
    ELSE IF Head(refs) \in visited THEN Unvisited(Tail(refs), visited)
    ELSE <<Head(refs)>> \o Unvisited(Tail(refs), visited)

\* Enqueue that appends only the first reference.
Enqueue_FirstOnly(toVisit, refs, visited) ==
    IF Unvisited(refs, visited) = <<>> THEN toVisit
    ELSE Append(toVisit, Head(Unvisited(refs, visited)))

\* The loop over storePath.References: append the ones not visited.
Enqueue(toVisit, refs, visited) == toVisit \o Unvisited(refs, visited)

\* IsVisited that never finds the path.
IsVisited_Never(path, visited) == FALSE

\* _, ok := visited[path]
IsVisited(path, visited) == path \in visited

\* ------------------------------------------------- the archives served
\* The NAR serialisation a cache writes, and what it serves at a NAR URL.

\* An int64 within 32 bits, as 8 little-endian bytes (two's complement).
Int64LE(n) ==
    IF n >= 0
    THEN << n % 256, (n \div 256) % 256, (n \div 65536) % 256, (n \div 16777216) % 256,
            0, 0, 0, 0 >>
    ELSE LET m == (n + 2147483647) + 1
         IN << m % 256, (m \div 256) % 256, (m \div 65536) % 256,
               128 + ((m \div 16777216) % 128), 255, 255, 255, 255 >>

Zeros(n) == [i \in 1..n |-> 0]

\* A NAR string: the length, the bytes, zero padding to a multiple of 8.
Str(bytes) == Int64LE(Len(bytes)) \o bytes \o Zeros(Padding(Len(bytes)))

RECURSIVE Concat(_)
Concat(seqs) == IF seqs = <<>> THEN <<>> ELSE Head(seqs) \o Concat(Tail(seqs))

NarRegular(contents) ==
    Concat(<< Str(TokOpen), Str(TokType), Str(TokRegular), Str(TokContents),
              Str(contents), Str(TokClose) >>)

NarExecutable(contents) ==
    Concat(<< Str(TokOpen), Str(TokType), Str(TokRegular), Str(TokExecutable), Str(<<>>),
              Str(TokContents), Str(contents), Str(TokClose) >>)

NarSymlink(target) ==
    Concat(<< Str(TokOpen), Str(TokType), Str(TokSymlink), Str(TokTarget), Str(target),
              Str(TokClose) >>)

NarEntry(name, node) ==
    Concat(<< Str(TokEntry), Str(TokOpen), Str(TokName), Str(name), Str(TokNode), node,
              Str(TokClose) >>)

\* A directory node of the entries given, in the order given.
NarDirectory(entries) ==
    Concat(<< Str(TokOpen), Str(TokType), Str(TokDirectory), Concat(entries),
              Str(TokClose) >>)

Nar(node) == Str(TokMagic) \o node

\* The first byte of a compressed stream, by format.
FormatMagic(format) ==
    CASE format = <<"gzip">> -> 31
      [] format = <<"xz">>   -> 253
      [] OTHER               -> 40

\* The body of format that decompresses to stream.
Compress(format, stream) ==
    IF format = <<"none">> THEN stream ELSE << FormatMagic(format) >> \o stream

FileHi == <<104, 105>>   \* "hi"

NameA == <<97>>   \* "a"

NameB == <<98>>   \* "b"

LinkX == <<120>>   \* "x", a target that does not exist

NameC == <<99>>   \* "c"

\* The nodes of an archive, as the cache has them before it serialises them.
File(contents) ==
    [type |-> "regular", exec |-> FALSE, contents |-> contents, target |-> <<>>,
     entries |-> <<>>]

Exec(contents) == [File(contents) EXCEPT !.exec = TRUE]

Link(target) == [File(<<>>) EXCEPT !.type = "symlink", !.target = target]

Dir(entries) == [File(<<>>) EXCEPT !.type = "directory", !.entries = entries]

Entry(name, node) == [name |-> name, node |-> node]

RECURSIVE NarNode(_)
\* The serialisation of node t.
NarNode(t) ==
    CASE t.type = "regular" ->
           IF t.exec THEN NarExecutable(t.contents) ELSE NarRegular(t.contents)
      [] t.type = "symlink" -> NarSymlink(t.target)
      [] OTHER ->
           NarDirectory([i \in 1..Len(t.entries) |->
                           NarEntry(t.entries[i].name, NarNode(t.entries[i].node))])

\* The trees served: one of each kind of top node, then directories with
\* entries in order, out of order, with a name that is no path component, with
\* a name twice, with a subdirectory, and with a name that leads through a
\* symlink made before it.
Trees ==
    << File(FileHi),
       Exec(<<>>),
       Link(LinkX),
       Link(<<46>>),
       Dir(<< Entry(NameA, File(FileHi)), Entry(NameB, Link(LinkX)) >>),
       Dir(<< Entry(NameB, Link(LinkX)), Entry(NameA, File(FileHi)) >>),
       Dir(<< Entry(<<46, 46>>, File(FileHi)) >>),
       Dir(<< Entry(NameA, File(FileHi)), Entry(NameA, File(FileHi)) >>),
       Dir(<< Entry(NameA, Dir(<< Entry(NameC, File(<<>>)) >>)),
              Entry(NameB, File(<<>>)) >>),
       Dir(<< Entry(NameB, Dir(<< Entry(NameC, File(<<>>)) >>)),
              Entry(NameA, File(<<>>)) >>),
       Dir(<< Entry(NameA, File(<<>>)), Entry(<<>>, File(<<>>)) >>),
       Dir(<< Entry(<<46>>, File(<<>>)) >>),
       Dir(<< Entry(<<97, 47, 98>>, File(<<>>)) >>),
       Dir(<< Entry(NameA, Link(<<47>>)), Entry(<<97, 47, 98>>, File(<<>>)) >>) >>

\* Streams that are the serialisation of no tree: an unknown node type, no
\* magic, a negative string length, a string length above the maximum, a
\* negative length of file contents.
Broken ==
    << Nar(Concat(<< Str(TokOpen), Str(TokType), Str(TokNode), Str(TokClose) >>)),
       Str(TokName) \o NarRegular(FileHi),
       Str(TokMagic) \o Int64LE(0 - 1),
       Str(TokMagic) \o Int64LE(maxStringLength + 1),
       Nar(Concat(<< Str(TokOpen), Str(TokType), Str(TokRegular), Str(TokContents),
                     Int64LE(0 - 1), <<0>>, Str(TokClose) >>)) >>

\* The archives: the trees serialised, and the broken streams.
Archives == [i \in 1..Len(Trees) |-> Nar(NarNode(Trees[i]))] \o Broken

\* The bytes served for d: archive d.arch, d.trail bytes after it, in d.format.
Served(d) == Compress(d.format, Archives[d.arch] \o Zeros(d.trail))

\* strconv.FormatInt(n, 10), as the cache writes NarSize.
RECURSIVE FormatNat(_)
FormatNat(n) ==
    IF n < 10 THEN << DigitToks[n + 1] >>
    ELSE Append(FormatNat(n \div 10), DigitToks[(n % 10) + 1])

FormatInt(n) == IF n < 0 THEN <<"-">> \o FormatNat(0 - n) ELSE FormatNat(n)

\* ------------------------------------------------- fetching one archive

\* filepath.Join(nixStore, ".nix-download_"+sp.BasePath), under the store root.
TempPath(sp) == << <<".nix-download_">> \o sp.BasePath >>

\* destPath := filepath.Join(nixStore, sp.BasePath), under the store root.
DestPath(sp) == << sp.BasePath >>

\* What a server answers at a URL it does not serve: the status is not looked
\* at, the body "404" is read as the NAR.
NoSuchNar == [neterr |-> FALSE, body |-> <<52, 48, 52>>]

\* narClient.Get(sp.NarURL)
NarGet(served, url) ==
    IF url \in DOMAIN served
    THEN [neterr |-> served[url].neterr, body |-> Served(served[url].body)]
    ELSE NoSuchNar

\* The switch on sp.Compression: the reader's stream, or the error.  A
\* decompressor refuses a body that does not start as its format does.
Decompress(compression, body) ==
    IF compression = <<"none">> THEN [err |-> "", stream |-> body]
    ELSE IF compression \in { <<"gzip">>, <<"xz">>, <<"zstd">> }
         THEN IF body # <<>> /\ Head(body) = FormatMagic(compression)
              THEN [err |-> "", stream |-> Tail(body)]
              ELSE [err |-> "failed to create reader", stream |-> <<>>]
    ELSE [err |-> "unsupported compression type", stream |-> <<>>]

\* The extractor x reading stream, and x without the stream it reads (a
\* worker holds its reader by reference).
Attach(x, stream) == [x EXCEPT !.rd.stream = stream]

Detach(x) == [x EXCEPT !.rd.stream = <<>>]

\* The stream a worker's reader delivers, before io.LimitReader.
StreamOf(served, sp) == Decompress(sp.Compression, NarGet(served, sp.NarURL).body).stream

\* No extractor yet.
NoExtractor ==
    [rd |-> [stream |-> <<>>, limit |-> 0, pos |-> 0], top |-> <<>>,
     haveNext |-> FALSE, nextString |-> <<>>, err |-> "", stack |-> <<>>]

\* A hasher that is given the whole stream.
Consumed_WholeStream(x, stream) == stream

\* The bytes the TeeReader has written to narHasher, x reading stream.
Consumed(x, stream) == SubSeq(stream, 1, x.rd.pos)

\* A hash check that accepts everything.
HashMismatch_Never(computedHash, narHash) == FALSE

\* computedHash != sp.NarHash
HashMismatch(computedHash, narHash) == computedHash # narHash

\* ------------------------------------------------- what the caches publish

Bases == { BaseA, BaseB, BaseC }

\* Bound: the number of references of a published narinfo, at most.
MaxRefs == 2

RefSets == { S \in SUBSET Bases : Cardinality(S) <= MaxRefs }

RECURSIVE SortedSeq(_)
\* The bases of S as a sorted list, as a cache writes its References.
SortedSeq(S) ==
    IF S = {} THEN <<>>
    ELSE LET m == CHOOSE x \in S : \A y \in S \ {x} : TextLess(x, y)
         IN <<m>> \o SortedSeq(S \ {m})

\* The archive a cache publishes for base: a regular file, a symlink, an
\* executable.
ArchOf(base) == IF base = BaseA THEN 1 ELSE IF base = BaseB THEN 3 ELSE 2

NarOf(base) == Archives[ArchOf(base)]

PubHash(base) == HashText(NarOf(base))

PubSize(base) == FormatInt(Len(NarOf(base)))

Faults == { "none", "missing", "forged" }

\* What the substituters answer at u for the published fields f: published
\* by the second substituter only, or missing, or served by the first with a
\* forged signature.
AnswerFor(f, hash, fault, u) ==
    CASE fault = "missing" -> NotFound
      [] fault = "forged"  -> CacheFor("first", hash, Body(f, <<SigText("forged", f)>>))[u]
      [] OTHER             -> CacheFor("second", hash, Body(f, <<SigText("good", f)>>))[u]

\* The answers of the substituters for the narinfo of base b.
Answer(g, b, fault, u) ==
    AnswerFor(Published(b, PubHash(b), PubSize(b), SortedSeq(g[b])), HashOf(b), fault, u)

URLsOf(b) == { NarInfoURL(substituters[i], HashOf(b)) : i \in 1..Len(substituters) }

\* The caches that publish graph g, with the narinfo of base bad at fault.
GraphCache(g, bad, fault) ==
    [u \in UNION { URLsOf(b) : b \in DOMAIN g } |->
        LET b == CHOOSE x \in DOMAIN g : u \in URLsOf(x)
        IN Answer(g, b, IF b = bad THEN fault ELSE "none", u)]

\* ---------------------------------------------------------------- state

VARIABLES
    nixStore,   \* the store root (-store), with the separator that follows it
    cache,      \* what the substituters answer: URL -> response
    nars,       \* what is served at the NAR URLs: URL -> response
    fs,         \* the store directory: name -> kind of the entry of that name
    graph,      \* the references the caches publish: base -> set of bases
    niPath,     \* fetchNarInfo: the path given on the command line
    niOrig,     \* the fields the cache published and signed
    niMut,      \* the field changed in the served narinfo
    niSigs,     \* the kinds of the Sig lines served, in order
    niMode,     \* which substituter answers
    niRes,      \* the result of fetchNarInfo
    niPc,
    rsArg,      \* discoverDependencies: the argument initialPath
    toVisit,
    visited,
    result,
    rsPc,       \* idle, call, loop, returned or failed
    rsFetched,  \* the bases fetchNarInfo was called with, in order
    worker,     \* the workers of the pool: where each stands, its item, its extractor
    prods,      \* the producer goroutines started so far, the last one the current
    cancelled,  \* ctx.Err() != nil
    errors,     \* the channel errors
    stdout,     \* the lines printed
    args,       \* flag.Args(), the paths still to process
    mainPc,     \* idle, next, discover, wait, exit or crashed
    logged,     \* the lines main wrote with log.Printf
    input,      \* flag.Args(), as the program was started
    before      \* the earlier runs of the program on this store: log and exit code

niVars == << niPath, niOrig, niMut, niSigs, niMode, niRes, niPc >>

\* What no step of the program changes.
staticVars == << nixStore, cache, nars, graph, input, before >>

envVars == << staticVars, fs >>

rsVars == << rsArg, toVisit, visited, result, rsPc, rsFetched >>

fpVars == << worker >>

poolVars == << prods, cancelled, errors, stdout >>

mainVars == << args, mainPc, logged >>

vars == << envVars, niVars, rsVars, fpVars, poolVars, mainVars >>

NIIdle ==
    /\ niPath = <<>> /\ niOrig = <<>> /\ niMut = "none" /\ niSigs = <<>>
    /\ niMode = "first" /\ niRes = Failed("") /\ niPc = "idle"

RSIdle ==
    /\ rsArg = <<>> /\ toVisit = <<>> /\ visited = {} /\ result = <<>>
    /\ rsPc = "idle" /\ rsFetched = <<>>

PoolIdle ==
    /\ worker = <<>> /\ prods = <<>> /\ cancelled = FALSE /\ errors = <<>>
    /\ stdout = <<>>

MainIdle ==
    /\ args = <<>> /\ mainPc = "idle" /\ logged = <<>>
    /\ input = <<>> /\ before = <<>>

StoreRoots == { StoreCanon, <<"/custom/">> }

\* ------------------------------------------------- fetchNarInfo, alone

NIBase == TrimPrefix(niPath, "/nix/store/")

NIBody == Body(Mutate(niOrig, niMut), [i \in 1..Len(niSigs) |-> SigText(niSigs[i], niOrig)])

NIInit ==
    /\ nixStore \in StoreRoots
    /\ niPath \in { BaseA, BaseB, StoreCanon \o BaseA }
    /\ niOrig \in NIOrigs
    /\ niMut \in Mutations
    /\ niSigs \in SigSeqs
    /\ niMode \in HttpModes
    /\ cache = CacheFor(niMode, HashOf(NIBase), NIBody)
    /\ nars = EmptyMap
    /\ fs = RootOnly
    /\ graph = EmptyMap
    /\ niRes = Failed("")
    /\ niPc = "start"
    /\ RSIdle /\ PoolIdle /\ MainIdle

\* discoverDependencies strips the prefix and calls fetchNarInfo.
NIFetch ==
    /\ niPc = "start"
    /\ niRes' = fetchNarInfo(NIBase, cache)
    /\ niPc' = "done"
    /\ UNCHANGED << envVars, rsVars, fpVars, poolVars, mainVars >>
    /\ UNCHANGED << niPath, niOrig, niMut, niSigs, niMode >>

NINext == NIFetch

SpecNarInfo == NIInit /\ [][NINext]_vars

\* ------------------------------------------------- discoverDependencies

\* Everything but the resolver's own state.
rsOthers == << envVars, niVars, fpVars, poolVars, mainVars >>

\* initialPath = strings.TrimPrefix(...); visited, toVisit, result initialised.
RSCall ==
    /\ rsPc = "call"
    /\ toVisit' = << TrimPrefix(rsArg, "/nix/store/") >>
    /\ visited' = {}
    /\ result' = <<>>
    /\ rsFetched' = <<>>
    /\ rsPc' = "loop"
    /\ UNCHANGED << rsArg, rsOthers >>

\* The loop body, for a path already visited.
RSSkipVisited ==
    /\ rsPc = "loop" /\ toVisit # <<>>
    /\ IsVisited(Head(toVisit), visited)
    /\ toVisit' = Tail(toVisit)
    /\ UNCHANGED << rsArg, visited, result, rsPc, rsFetched, rsOthers >>

\* The loop body, for a path that exists on disk.
RSSkipOnDisk ==
    /\ rsPc = "loop" /\ toVisit # <<>>
    /\ ~IsVisited(Head(toVisit), visited)
    /\ StatOk(fs, << Head(toVisit) >>)
    /\ visited' = visited \cup { Head(toVisit) }
    /\ toVisit' = Tail(toVisit)
    /\ UNCHANGED << rsArg, result, rsPc, rsFetched, rsOthers >>

\* The loop body, for a path whose narinfo is fetched and accepted.
RSFetchOk ==
    /\ rsPc = "loop" /\ toVisit # <<>>
    /\ ~IsVisited(Head(toVisit), visited)
    /\ ~StatOk(fs, << Head(toVisit) >>)
    /\ \E path \in { Head(toVisit) } :
       \E r \in { fetchNarInfo(path, cache) } :
          /\ r.err = ""
          /\ visited' = visited \cup { path }
          /\ result' = Append(result, r.sp)
          /\ toVisit' = Enqueue(Tail(toVisit), r.sp.References, visited \cup { path })
          /\ rsFetched' = Append(rsFetched, path)
    /\ UNCHANGED << rsArg, rsPc, rsOthers >>

\* The loop body, for a path whose narinfo is not obtained: return nil, err.
RSFetchFail ==
    /\ rsPc = "loop" /\ toVisit # <<>>
    /\ ~IsVisited(Head(toVisit), visited)
    /\ ~StatOk(fs, << Head(toVisit) >>)
    /\ fetchNarInfo(Head(toVisit), cache).err # ""
    /\ visited' = visited \cup { Head(toVisit) }
    /\ toVisit' = Tail(toVisit)
    /\ result' = <<>>
    /\ rsFetched' = Append(rsFetched, Head(toVisit))
    /\ rsPc' = "failed"
    /\ UNCHANGED << rsArg, rsOthers >>

\* The queue is empty: slices.Reverse(result); return result, nil.
RSReturn ==
    /\ rsPc = "loop" /\ toVisit = <<>>
    /\ result' = Reverse(result)
    /\ rsPc' = "returned"
    /\ UNCHANGED << rsArg, toVisit, visited, rsFetched, rsOthers >>

RSInit ==
    /\ nixStore = StoreCanon
    /\ graph \in [Bases -> RefSets]
    /\ \E bad \in { <<BaseA, "none">>, <<BaseB, "missing">>, <<BaseB, "forged">>,
                   <<BaseC, "missing">>, <<BaseC, "forged">> } :
          cache = GraphCache(graph, bad[1], bad[2])
    /\ \E S \in SUBSET Bases : fs = [q \in { <<>> } \cup { <<b>> : b \in S } |-> "dir"]
    /\ rsArg \in { BaseA, BaseB, StoreCanon \o BaseA }
    /\ toVisit = <<>> /\ visited = {} /\ result = <<>> /\ rsFetched = <<>>
    /\ rsPc = "call"
    /\ nars = EmptyMap
    /\ NIIdle /\ PoolIdle /\ MainIdle

RSNext ==
    \/ RSCall
    \/ RSSkipVisited
    \/ RSSkipOnDisk
    \/ RSFetchOk
    \/ RSFetchFail
    \/ RSReturn

SpecResolve == RSInit /\ [][RSNext]_vars

\* discoverDependencies runs in one goroutine, which takes its next step
\* whenever it has one (each narinfo fetch returns).
LiveSpecResolve == SpecResolve /\ WF_vars(RSNext)

\* ------------------------------------------------- fetchAndManifestStorePath
\* One call f() of a worker w, from narClient.Get to the deferred cleanup.

\* Everything a call of fetchAndManifestStorePath leaves alone, fs, worker and
\* mainPc apart.
fpOthers == << staticVars, niVars, rsVars, poolVars, args, logged >>

\* The fields of a worker at rest.
Resting(pc) ==
    [pc |-> pc, sp |-> NoStorePath, x |-> NoExtractor, err |-> "", renamed |-> FALSE]

\* narClient.Get, the switch on sp.Compression, LimitReader, TeeReader and
\* NewNarExtractor.
FPGet(w) ==
    /\ mainPc = "wait" /\ worker[w].pc = "get"
    /\ \E sp \in { worker[w].sp } :
       \E resp \in { NarGet(nars, sp.NarURL) } :
       \E d \in { Decompress(sp.Compression, resp.body) } :
          worker' =
            IF resp.neterr
            THEN [worker EXCEPT ![w].err = "failed to fetch NAR", ![w].pc = "cleanup"]
            ELSE IF d.err # ""
                 THEN [worker EXCEPT ![w].err = d.err, ![w].pc = "cleanup"]
            ELSE [worker EXCEPT ![w].x = Detach(NewNarExtractor(d.stream, sp.NarSize,
                                                                TempPath(sp))),
                                ![w].pc = "extract"]
    /\ UNCHANGED << fs, mainPc, fpOthers >>

\* extractor.Extract(), up to its next operation on the store directory.
FPExtract(w) ==
    /\ mainPc = "wait" /\ worker[w].pc = "extract"
    /\ \E xa \in { Attach(worker[w].x, StreamOf(nars, worker[w].sp)) } :
       \E s \in { XRun(xa, fs) } :
       \E nx \in { Detach(s.x) } :
          /\ fs' = s.dir
          /\ worker' =
               IF s.x.stack # <<>> THEN [worker EXCEPT ![w].x = nx]
               ELSE IF s.x.err = "panic"
                    THEN [worker EXCEPT ![w].x = nx, ![w].err = "panic",
                                        ![w].pc = "cleanup"]
               ELSE IF s.x.err # ""
                    THEN [worker EXCEPT ![w].x = nx, ![w].err = "failed to extract NAR",
                                        ![w].pc = "cleanup"]
               ELSE [worker EXCEPT ![w].x = nx, ![w].pc = "verify"]
    /\ UNCHANGED << mainPc, fpOthers >>

\* Verify the hash.
FPVerify(w) ==
    /\ mainPc = "wait" /\ worker[w].pc = "verify"
    /\ \E computedHash \in
             { HashText(Consumed(worker[w].x, StreamOf(nars, worker[w].sp))) } :
          worker' =
            IF HashMismatch(computedHash, worker[w].sp.NarHash)
            THEN [worker EXCEPT ![w].err = "hash mismatch", ![w].pc = "cleanup"]
            ELSE [worker EXCEPT ![w].pc = "rename"]
    /\ UNCHANGED << fs, mainPc, fpOthers >>

\* Move the temporary directory to the final destination.
FPRename(w) ==
    /\ mainPc = "wait" /\ worker[w].pc = "rename"
    /\ LET temp == TempPath(worker[w].sp)
           dest == DestPath(worker[w].sp)
       IN IF RenameOk(fs, temp, dest)
          THEN /\ fs' = Rename(fs, temp, dest)
               /\ worker' = [worker EXCEPT ![w].renamed = TRUE, ![w].pc = "cleanup"]
          ELSE /\ fs' = fs
               /\ worker' = [worker EXCEPT ![w].err = "failed to move temporary directory",
                                           ![w].pc = "cleanup"]
    /\ UNCHANGED << mainPc, fpOthers >>

\* The deferred function, and the return of f() to the worker loop; a panic
\* that no one recovers ends the program once the deferred calls have run.
FPCleanup(w) ==
    /\ mainPc = "wait" /\ worker[w].pc = "cleanup"
    /\ LET temp == TempPath(worker[w].sp)
       IN fs' = IF StatOk(fs, temp) THEN RemoveAll(fs, temp) ELSE fs
    /\ worker' = [worker EXCEPT ![w].pc = IF worker[w].err = "panic" THEN "crashed"
                                          ELSE IF worker[w].err # "" THEN "report"
                                          ELSE "recv"]
    /\ mainPc' = IF worker[w].err = "panic" THEN "crashed" ELSE mainPc
    /\ UNCHANGED fpOthers

\* ------------------------------------------------- one path, alone
\* fetchAndManifestStorePath on one StorePath, over the archives a cache (or
\* whoever answers in its place) can serve and the sizes and hashes a narinfo
\* can declare.

\* Bound: the number of bytes served after the end of an archive.
MaxTrail == 3

Trails == { 0, MaxTrail }

\* The sizes a narinfo declares for an archive of length n served with a
\* trail of t bytes.
PathSizes(n, t) == { n, n + t + 8, n - 1, 8, 0, 0 - 1 }

\* The hashes a narinfo declares: of the archive, of all that is served, other.
PathHashes(stream, trail) ==
    { HashText(stream), HashText(stream \o trail), <<"sha256:", "0", "0", "0", "0">> }

\* Compression field and format of the body served.
PathFormats ==
    { << <<"none">>, <<"none">> >>, << <<"xz">>, <<"xz">> >>, << <<"gzip">>, <<"gzip">> >>,
      << <<"zstd">>, <<"zstd">> >>, << <<"xz">>, <<"none">> >>, << <<"bzip2">>, <<"none">> >> }

PathURL == << "s1", "/", "nar", "/", "a", ".nar" >>

\* The store directory before the call.
PathDirs ==
    { EmptyMap,
      RootOnly,
      [q \in { <<>>, <<BaseA>> } |-> "dir"],
      [q \in { <<>>, <<BaseA>> } |-> IF q = <<>> THEN "dir" ELSE "file"],
      [q \in { <<>>, <<BaseA>> } |-> IF q = <<>> THEN "dir" ELSE "symlink_dangling"],
      [q \in { <<>>, <<BaseA>>, <<BaseA, NameA>> } |-> IF Len(q) <= 1 THEN "dir" ELSE "file"],
      [q \in { <<>>, TempPath([BasePath |-> BaseA]) } |-> "dir"] }

FPInit ==
    /\ nixStore = StoreCanon
    /\ cache = EmptyMap /\ graph = EmptyMap
    /\ fs \in PathDirs
    /\ \E a \in DOMAIN Archives, t \in Trails, fmt \in PathFormats, neterr \in BOOLEAN :
         /\ fmt[1] # <<"none">> => (t = 0 /\ a <= 3)
         /\ neterr => (t = 0 /\ fmt[1] = <<"none">> /\ a = 1)
         /\ nars = [u \in { PathURL } |->
                      [neterr |-> neterr,
                       body   |-> [arch |-> a, trail |-> t, format |-> fmt[2]]]]
         /\ \E size \in PathSizes(Len(Archives[a]), t),
               hash \in PathHashes(Archives[a], Zeros(t)) :
              worker = << [pc |-> "get",
                           sp |-> [BasePath |-> BaseA, References |-> <<>>,
                                   NarURL |-> PathURL, Compression |-> fmt[1],
                                   NarSize |-> size, NarHash |-> hash],
                           x |-> NoExtractor, err |-> "", renamed |-> FALSE] >>
    /\ prods = <<>> /\ cancelled = FALSE /\ errors = <<>> /\ stdout = <<>>
    /\ args = <<>> /\ mainPc = "wait" /\ logged = <<>>
    /\ input = <<>> /\ before = <<>>
    /\ NIIdle /\ RSIdle

FPNext ==
    \/ \E w \in DOMAIN worker : FPGet(w)
    \/ \E w \in DOMAIN worker : FPExtract(w)
    \/ \E w \in DOMAIN worker : FPVerify(w)
    \/ \E w \in DOMAIN worker : FPRename(w)
    \/ \E w \in DOMAIN worker : FPCleanup(w)

SpecPath == FPInit /\ [][FPNext]_vars

\* ------------------------------------------------- fetchAndManifestStorePaths
\* The producer goroutine, the unbuffered channel ch, the workers and main
\* waiting for them.  prods[k] is the producer of the k-th call; the workers
\* are those of the last call.

\* n := min(8, len(storePaths)): the 8.
poolLimit == 8

\* The program is running.
Alive == mainPc \notin { "exit", "crashed" }

\* The call: the channels, the producer and the n workers are started, and
\* main goes to wg.Wait().
FMStart ==
    /\ mainPc = "discover" /\ rsPc = "returned"
    /\ prods' = Append(prods, [pc |-> "send", i |-> 1, paths |-> result])
    /\ worker' = [w \in 1..Min(poolLimit, Len(result)) |-> Resting("recv")]
    /\ cancelled' = FALSE
    /\ errors' = <<>>
    /\ rsPc' = "idle"
    /\ mainPc' = "wait"
    /\ UNCHANGED << envVars, niVars, stdout, args, logged >>
    /\ UNCHANGED << rsArg, toVisit, visited, result, rsFetched >>

\* ch <- f meets f := range ch: worker w takes the item producer k offers.
ChanSend(k, w) ==
    /\ mainPc = "wait" /\ k = Len(prods)
    /\ prods[k].pc = "send" /\ prods[k].i <= Len(prods[k].paths)
    /\ worker[w].pc = "recv"
    /\ worker' = [worker EXCEPT ![w] = [Resting("ctx") EXCEPT
                                           !.sp = prods[k].paths[prods[k].i]]]
    /\ prods' = [prods EXCEPT ![k].pc = "print"]
    /\ UNCHANGED << envVars, niVars, rsVars, cancelled, errors, stdout, mainVars >>

\* fmt.Printf("%s\n", destPath) and the next turn of the producer's loop.
ProdPrint(k) ==
    /\ Alive /\ prods[k].pc = "print"
    /\ stdout' = Append(stdout, nixStore \o prods[k].paths[prods[k].i].BasePath)
    /\ prods' = [prods EXCEPT ![k].pc = "send", ![k].i = prods[k].i + 1]
    /\ UNCHANGED << envVars, niVars, rsVars, fpVars, cancelled, errors, mainVars >>

\* The producer's loop is over: close(ch).
ProdClose(k) ==
    /\ Alive /\ prods[k].pc = "send" /\ prods[k].i > Len(prods[k].paths)
    /\ prods' = [prods EXCEPT ![k].pc = "closed"]
    /\ UNCHANGED << envVars, niVars, rsVars, fpVars, cancelled, errors, stdout, mainVars >>

\* A worker that leaves its loop while the channel is still open.
WClosed_Early(w) ==
    /\ mainPc = "wait" /\ worker[w].pc = "recv"
    /\ worker' = [worker EXCEPT ![w].pc = "exited"]
    /\ UNCHANGED << envVars, niVars, rsVars, poolVars, mainVars >>

\* range ch ends for worker w: the channel is closed; wg.Done().
WClosed(w) ==
    /\ mainPc = "wait" /\ worker[w].pc = "recv"
    /\ prods[Len(prods)].pc = "closed"
    /\ worker' = [worker EXCEPT ![w].pc = "exited"]
    /\ UNCHANGED << envVars, niVars, rsVars, poolVars, mainVars >>

\* A worker that calls f() without looking at ctx.
WCheckCtx_NoCheck(w) ==
    /\ mainPc = "wait" /\ worker[w].pc = "ctx"
    /\ worker' = [worker EXCEPT ![w].pc = "get"]
    /\ UNCHANGED << envVars, niVars, rsVars, poolVars, mainVars >>

\* if ctx.Err() != nil { return }, else f() is called.
WCheckCtx(w) ==
    /\ mainPc = "wait" /\ worker[w].pc = "ctx"
    /\ worker' = [worker EXCEPT ![w].pc = IF cancelled THEN "exited" ELSE "get"]
    /\ UNCHANGED << envVars, niVars, rsVars, poolVars, mainVars >>

\* The report of a worker on a channel errors without buffer: the send waits
\* for a receiver, and main does not receive before wg.Wait() has returned.
WReport_Unbuffered(w) ==
    /\ mainPc = "wait" /\ worker[w].pc = "report"
    /\ \A v \in DOMAIN worker : worker[v].pc = "exited"
    /\ cancelled' = TRUE
    /\ errors' = Append(errors, worker[w].err)
    /\ worker' = [worker EXCEPT ![w].pc = "exited"]
    /\ UNCHANGED << envVars, niVars, rsVars, prods, stdout, mainVars >>

\* f() returned an error: cancel(); errors <- err; return.
WReport(w) ==
    /\ mainPc = "wait" /\ worker[w].pc = "report"
    /\ Len(errors) < Len(worker)
    /\ cancelled' = TRUE
    /\ errors' = Append(errors, worker[w].err)
    /\ worker' = [worker EXCEPT ![w].pc = "exited"]
    /\ UNCHANGED << envVars, niVars, rsVars, prods, stdout, mainVars >>

\* A return at the first error reported, without wg.Wait().
FMReturn_FirstError ==
    /\ mainPc = "wait"
    /\ errors # <<>> \/ \A w \in DOMAIN worker : worker[w].pc = "exited"
    /\ cancelled' = TRUE
    /\ logged' = IF errors # <<>>
                 THEN Append(logged, [what |-> "fetching and manifestation",
                                      path |-> rsArg, err |-> errors[1]])
                 ELSE logged
    /\ mainPc' = "next"
    /\ UNCHANGED << envVars, niVars, rsVars, fpVars, prods, errors, stdout, args >>

\* wg.Wait() returns, errors is closed and read, the deferred cancel() runs and
\* the function returns; main logs the error, if any, and goes on.
FMReturn ==
    /\ mainPc = "wait"
    /\ \A w \in DOMAIN worker : worker[w].pc = "exited"
    /\ cancelled' = TRUE
    /\ logged' = IF errors # <<>>
                 THEN Append(logged, [what |-> "fetching and manifestation",
                                      path |-> rsArg, err |-> errors[1]])
                 ELSE logged
    /\ mainPc' = "next"
    /\ UNCHANGED << envVars, niVars, rsVars, fpVars, prods, errors, stdout, args >>

\* ------------------------------------------------------------------- main

\* The loop over flag.Args(): discoverDependencies(path) is called.
MainNext ==
    /\ mainPc = "next" /\ args # <<>>
    /\ rsArg' = Head(args)
    /\ args' = Tail(args)
    /\ rsPc' = "call"
    /\ mainPc' = "discover"
    /\ UNCHANGED << envVars, niVars, fpVars, poolVars, logged >>
    /\ UNCHANGED << toVisit, visited, result, rsFetched >>

\* Error during discovery, were it logged with log.Fatalf: the program ends.
MainDiscoveryFailed_Fatal ==
    /\ mainPc = "discover" /\ rsPc = "failed"
    /\ rsPc' = "idle"
    /\ logged' = Append(logged, [what |-> "discovery", path |-> rsArg,
                                 err |-> "error fetching narinfo"])
    /\ mainPc' = "crashed"
    /\ UNCHANGED << envVars, niVars, fpVars, poolVars, args >>
    /\ UNCHANGED << rsArg, toVisit, visited, result, rsFetched >>

\* Error during discovery: log.Printf and continue.
MainDiscoveryFailed ==
    /\ mainPc = "discover" /\ rsPc = "failed"
    /\ rsPc' = "idle"
    /\ logged' = Append(logged, [what |-> "discovery", path |-> rsArg,
                                 err |-> "error fetching narinfo"])
    /\ mainPc' = "next"
    /\ UNCHANGED << envVars, niVars, fpVars, poolVars, args >>
    /\ UNCHANGED << rsArg, toVisit, visited, result, rsFetched >>

\* main returns.
MainExit ==
    /\ mainPc = "next" /\ args = <<>>
    /\ mainPc' = "exit"
    /\ UNCHANGED << envVars, niVars, rsVars, fpVars, poolVars, args, logged >>

\* The program is over: main returned, or a panic ended it.
Terminated == mainPc \in { "exit", "crashed" }

\* The exit code of the process: 0 when main returns (no call of os.Exit, and
\* log.Printf does not end the program), 2 when a goroutine panics.
ExitCode == IF mainPc = "crashed" THEN 2 ELSE 0

\* The reference graphs published.
Graphs ==
    { [b \in Bases |-> IF b = BaseA THEN { BaseB, BaseC }
                       ELSE IF b = BaseB THEN { BaseC } ELSE {}],
      [b \in Bases |-> IF b = BaseA THEN { BaseB, BaseC }
                       ELSE IF b = BaseC THEN { BaseB } ELSE {}] }

\* What is served in place of the archive of one base.
NarFaults == { "none", "other", "trail", "neterr", "missing" }

NarURLsOf(b) ==
    { substituters[i] \o <<"/", "nar", "/">> \o HashOf(b) \o <<".nar">> :
        i \in 1..Len(substituters) }

\* What is served for base b.
NarAnswer(b, fault) ==
    [neterr |-> fault = "neterr",
     body   |-> [arch   |-> IF fault = "other" THEN 4 ELSE ArchOf(b),
                 trail  |-> IF fault = "trail" THEN MaxTrail ELSE 0,
                 format |-> <<"none">>]]

\* The archives served for the bases of S, the one of base bad at fault.
NarCache(S, bad, fault) ==
    [u \in UNION { NarURLsOf(b) : b \in IF fault = "missing" THEN S \ { bad } ELSE S } |->
        NarAnswer(CHOOSE b \in S : u \in NarURLsOf(b),
                  IF u \in NarURLsOf(bad) THEN fault ELSE "none")]

\* The faults of one run: in the narinfo of a base or in its archive.
Scenarios ==
    { << BaseB, "missing", "none" >>, << BaseC, "forged", "none" >>,
      << BaseA, "none", "other" >> }
    \cup { << BaseB, "none", f >> : f \in NarFaults }

\* The faults met with nothing on disk, when three paths are fetched at once.
ScenariosOfThree ==
    { << BaseB, "none", "none" >>, << BaseB, "none", "neterr" >>,
      << BaseB, "missing", "none" >> }

Init ==
    /\ nixStore = StoreCanon
    /\ graph \in Graphs
    /\ fs \in { RootOnly, [q \in { <<>>, <<BaseC>> } |-> "dir"] }
    /\ \E sc \in Scenarios :
          /\ fs = RootOnly => sc \in ScenariosOfThree
          /\ cache = GraphCache(graph, sc[1], sc[2])
          /\ nars = NarCache(Bases, sc[1], sc[3])
    /\ args \in { << BaseA >>, << BaseB, StoreCanon \o BaseA >> }
    /\ input = args /\ before = <<>>
    /\ mainPc = "next" /\ logged = <<>>
    /\ NIIdle /\ RSIdle /\ PoolIdle

Next ==
    \/ MainNext
    \/ RSCall
    \/ RSSkipVisited
    \/ RSSkipOnDisk
    \/ RSFetchOk
    \/ RSFetchFail
    \/ RSReturn
    \/ MainDiscoveryFailed
    \/ FMStart
    \/ \E k \in DOMAIN prods : \E w \in DOMAIN worker : ChanSend(k, w)
    \/ \E k \in DOMAIN prods : ProdPrint(k)
    \/ \E k \in DOMAIN prods : ProdClose(k)
    \/ \E w \in DOMAIN worker : WClosed(w)
    \/ \E w \in DOMAIN worker : WCheckCtx(w)
    \/ \E w \in DOMAIN worker : FPGet(w)
    \/ \E w \in DOMAIN worker : FPExtract(w)
    \/ \E w \in DOMAIN worker : FPVerify(w)
    \/ \E w \in DOMAIN worker : FPRename(w)
    \/ \E w \in DOMAIN worker : FPCleanup(w)
    \/ \E w \in DOMAIN worker : WReport(w)
    \/ FMReturn
    \/ MainExit

Spec == Init /\ [][Next]_vars

\* ------------------------------------------------- the pool, alone
\* fetchAndManifestStorePaths on a closure given, of independent paths: some
\* whose archive is served and some whose archive cannot be fetched.

PoolOkURL == << "s1", "/", "nar", "/", "ok", ".nar" >>

PoolBadURL == << "s1", "/", "nar", "/", "bad", ".nar" >>

\* The i-th path of a closure, its archive served (ok) or not.
PoolItem(i, ok) ==
    [BasePath    |-> << "p", DigitToks[i + 1], "-", "x" >>,
     References  |-> <<>>,
     NarURL      |-> IF ok THEN PoolOkURL ELSE PoolBadURL,
     Compression |-> <<"none">>,
     NarSize     |-> Len(Archives[2]),
     NarHash     |-> HashText(Archives[2])]

\* The closure of n paths of which those at the positions of F fail.
PoolClosure(n, F) == [i \in 1..n |-> PoolItem(i, i \notin F)]

\* Bound: the length of the closures followed from the start of the call.
MaxClosure == 2

\* The closures followed from the start: every length up to MaxClosure and
\* every pattern of failures.
PoolClosures ==
    { PoolClosure(n, F) : n \in { MaxClosure }, F \in SUBSET (1..MaxClosure) }
    \cup { PoolClosure(n, {}) : n \in 0..(MaxClosure - 1) }
    \cup { PoolClosure(n, 1..n) : n \in 1..(MaxClosure - 1) }

\* A closure of one path more than the pool has workers, of which none can be
\* fetched.
LongClosure == PoolClosure(poolLimit + 1, 1..(poolLimit + 1))

\* A worker that took path i of LongClosure, failed to fetch it, reported the
\* error and left.
FailedOn(i) ==
    [Resting("exited") EXCEPT !.sp = LongClosure[i], !.err = "failed to fetch NAR"]

\* The start of a call on a closure of PoolClosures.
PoolStart ==
    /\ result \in PoolClosures
    /\ rsPc = "returned" /\ mainPc = "discover"
    /\ PoolIdle

\* A call on LongClosure, taken where the first j workers have each received
\* one path before any of them failed, and then failed, reported and left;
\* the producer has printed j lines and offers the next path.
PoolLate(j) ==
    /\ result = LongClosure
    /\ rsPc = "idle" /\ mainPc = "wait"
    /\ prods = << [pc |-> "send", i |-> j + 1, paths |-> LongClosure] >>
    /\ worker = [w \in 1..poolLimit |-> IF w <= j THEN FailedOn(w) ELSE Resting("recv")]
    /\ cancelled = TRUE
    /\ errors = [w \in 1..j |-> "failed to fetch NAR"]
    /\ stdout = [i \in 1..j |-> nixStore \o LongClosure[i].BasePath]

PoolInit ==
    /\ nixStore = StoreCanon
    /\ cache = EmptyMap /\ graph = EmptyMap /\ fs = RootOnly
    /\ nars = [u \in { PoolOkURL, PoolBadURL } |->
                 [neterr |-> u = PoolBadURL,
                  body   |-> [arch |-> 2, trail |-> 0, format |-> <<"none">>]]]
    /\ rsArg = BaseA /\ toVisit = <<>> /\ visited = {} /\ rsFetched = <<>>
    /\ args = <<>> /\ logged = <<>>
    /\ input = << BaseA >> /\ before = <<>>
    /\ NIIdle
    /\ PoolStart \/ PoolLate(poolLimit - 2) \/ PoolLate(poolLimit - 1)

PoolNext ==
    \/ FMStart
    \/ \E k \in DOMAIN prods : \E w \in DOMAIN worker : ChanSend(k, w)
    \/ \E k \in DOMAIN prods : ProdPrint(k)
    \/ \E k \in DOMAIN prods : ProdClose(k)
    \/ \E w \in DOMAIN worker : WClosed(w)
    \/ \E w \in DOMAIN worker : WCheckCtx(w)
    \/ \E w \in DOMAIN worker : FPGet(w)
    \/ \E w \in DOMAIN worker : FPExtract(w)
    \/ \E w \in DOMAIN worker : FPVerify(w)
    \/ \E w \in DOMAIN worker : FPRename(w)
    \/ \E w \in DOMAIN worker : FPCleanup(w)
    \/ \E w \in DOMAIN worker : WReport(w)
    \/ FMReturn
    \/ MainExit

SpecPool == PoolInit /\ [][PoolNext]_vars

\* The steps of worker w, the receive included.
WorkerStep(w) ==
    /\ w \in DOMAIN worker
    /\ \/ \E k \in DOMAIN prods : ChanSend(k, w)
       \/ WClosed(w) \/ WCheckCtx(w)
       \/ FPGet(w) \/ FPExtract(w) \/ FPVerify(w) \/ FPRename(w) \/ FPCleanup(w)
       \/ WReport(w)

\* The steps the producers take alone.
ProducerStep == \E k \in DOMAIN prods : ProdPrint(k) \/ ProdClose(k)

\* The steps of the main goroutine.
MainStep == FMStart \/ FMReturn \/ MainExit

\* The scheduler lets every goroutine that can run take its step, and every
\* fetch comes to an end.
PoolFairness ==
    /\ WF_vars(MainStep)
    /\ WF_vars(ProducerStep)
    /\ \A w \in 1..poolLimit : WF_vars(WorkerStep(w))

LiveSpecPool == SpecPool /\ PoolFairness

\* ------------------------------------------------- the program, run again
\* The program is started a second time with the same arguments, on the store
\* directory as the first run left it and with the same caches.

Rerun ==
    /\ Terminated /\ before = <<>>
    /\ before' = << [logged |-> logged, code |-> ExitCode] >>
    /\ args' = input
    /\ mainPc' = "next"
    /\ logged' = <<>>
    /\ worker' = <<>> /\ prods' = <<>> /\ cancelled' = FALSE /\ errors' = <<>>
    /\ stdout' = <<>>
    /\ rsArg' = <<>> /\ toVisit' = <<>> /\ visited' = {} /\ result' = <<>>
    /\ rsPc' = "idle" /\ rsFetched' = <<>>
    /\ UNCHANGED << nixStore, cache, nars, graph, input, fs, niVars >>

NextTwice == Next \/ Rerun

SpecTwice == Init /\ [][NextTwice]_vars

\* ------------------------------------------------- claims on fetchNarInfo

NIAnswered == niMode \in { "first", "second", "second_neterr", "both" }

\* The narinfo as the scanner loop leaves it.
NIScan == ScanLines(NoScan, NIBody, <<>>)

\* Sig line i alone, as the narinfo's signature, verifies under a trusted key.
NISigLineVerifies(i) ==
    verifyNarInfoSignature(
        MapPut(NIScan.narInfo, <<"Sig">>, SigText(niSigs[i], niOrig))) = ""

\* The checks of fetchNarInfo other than the signature pass.
NIOtherChecksPass ==
    /\ NIScan.infoStorePath = StoreCanon \o NIBase
    /\ ParseInt(MapGet(NIScan.narInfo, <<"NarSize">>)).ok
    /\ MapGet(NIScan.narInfo, <<"NarHash">>) # <<>>
    /\ Head(MapGet(NIScan.narInfo, <<"NarHash">>)) = "sha256:"

\* C8: a narinfo with several Sig lines, one of which names a trusted key and
\* verifies, is accepted by fetchNarInfo wherever that line stands among the
\* others.
C8_AnyTrustedSigLineAccepted ==
    ( /\ niPc = "done"
      /\ NIAnswered
      /\ NIOtherChecksPass
      /\ Len(niSigs) > 1
      /\ \E i \in 1..Len(niSigs) : NISigLineVerifies(i) )
    => niRes.err = ""

\* The value of the field that mutation m changes: the text of StorePath,
\* NarHash or NarSize, the list of references of References (the same
\* references spaced differently are the same value).
FieldOf(f, m) ==
    CASE m \in { "sp_other", "sp_root" }            -> f.sp
      [] m \in { "nh_other", "nh_algo" }            -> f.nh
      [] m \in { "ns_other", "ns_bad", "ns_neg" }   -> f.ns
      [] OTHER                                      -> Fields(f.refs)

\* C9: the verified message is the signer's fingerprint
\* 1;StorePath;NarHash;NarSize;refs; a narinfo that verifies stops verifying
\* when one of its StorePath, NarHash, NarSize or References fields is changed
\* under the same Sig; and the record fetchNarInfo returns carries the base,
\* hash, size and references the signature covers.
C9_SignatureBindsFields ==
    /\ niMut = "none" =>
          buildSignatureMessage(NIScan.narInfo)
            = Fingerprint(niOrig.sp, niOrig.nh, niOrig.ns, niOrig.refList)
    /\ ( /\ niPc = "done"
         /\ niMut # "none"
         /\ FieldOf(Mutate(niOrig, niMut), niMut) # FieldOf(niOrig, niMut)
         /\ niSigs = << "good" >> )
       => verifyNarInfoSignature(NIScan.narInfo) # ""
    /\ (niPc = "done" /\ niRes.err = "") =>
          /\ StoreCanon \o niRes.sp.BasePath = niOrig.sp
          /\ niRes.sp.NarHash = niOrig.nh
          /\ niRes.sp.NarSize = ParseInt(niOrig.ns).val
          /\ niRes.sp.References = SortStrings(niOrig.refList)

\* C10 as stated: a narinfo is accepted only if its StorePath field is
\* <store_root>/<requested_base>, for the configured store root.
C10_StorePathUnderConfiguredRoot ==
    (niPc = "done" /\ niRes.err = "") => NIScan.infoStorePath = nixStore \o NIBase

\* C10 as amended: a narinfo is accepted only if its StorePath field is
\* /nix/store/<requested_base>, whatever store root is configured.
C10_StorePathUnderCanonicalRoot ==
    (niPc = "done" /\ niRes.err = "") => NIScan.infoStorePath = StoreCanon \o NIBase

\* C10: a narinfo was accepted under a store root other than /nix/store.
C10_Witness_AcceptedUnderCustomRoot ==
    niPc = "done" /\ niRes.err = "" /\ nixStore # StoreCanon

\* ------------------------------------------------- claims on the resolver

Root == TrimPrefix(rsArg, "/nix/store/")

OnDisk(b) == StatOk(fs, << b >>)

Range(seq) == { seq[i] : i \in 1..Len(seq) }

ResultBases == { result[i].BasePath : i \in 1..Len(result) }

NoDuplicates(seq) == \A i, j \in 1..Len(seq) : i # j => seq[i] # seq[j]

RECURSIVE ReachFrom(_)
\* The bases reachable from those of S through published references.
ReachFrom(S) ==
    LET N == S \cup UNION { graph[b] : b \in S }
    IN IF N = S THEN S ELSE ReachFrom(N)

RECURSIVE ReachOffDisk(_)
\* The bases reachable from those of S through references of paths that are not
\* on disk.
ReachOffDisk(S) ==
    LET N == S \cup UNION { graph[b] : b \in { x \in S : ~OnDisk(x) } }
    IN IF N = S THEN S ELSE ReachOffDisk(N)

\* No path references itself through other paths.
Acyclic == \A b \in DOMAIN graph : b \notin ReachFrom(graph[b] \ { b })

\* C3: in the returned sequence each reference of each path (other than the
\* path itself) is on disk or stands earlier in the sequence; stated for the
\* reference graphs without cycles.
C3_ReferencesEarlier ==
    (rsPc = "returned" /\ Acyclic) =>
        \A i \in 1..Len(result) :
            \A r \in Range(result[i].References) \ { result[i].BasePath } :
                OnDisk(r) \/ \E j \in 1..(i-1) : result[j].BasePath = r

\* C4 as stated: the returned sequence holds every base reachable from the
\* requested one that is not on disk.
C4_CoversReachable ==
    rsPc = "returned" =>
        { b \in ReachFrom({ Root }) : ~OnDisk(b) } \subseteq ResultBases

\* C4 as amended: the returned sequence holds every base that is not on disk
\* and is reachable from the requested one through paths that are not on disk.
C4_CoversReachableOffDisk ==
    rsPc = "returned" =>
        { b \in ReachOffDisk({ Root }) : ~OnDisk(b) } \subseteq ResultBases

\* C4: a sequence of two paths or more was returned and a reference of one of
\* them was skipped as present on disk.
C4_Witness_ClosureWithSkip ==
    /\ rsPc = "returned" /\ Len(result) >= 2
    /\ \E i \in 1..Len(result) : \E r \in Range(result[i].References) : OnDisk(r)

\* C5: no base occurs twice in the resolver's sequence, and fetchNarInfo is
\* called at most once for a base within a request.
C5_NoDuplicates ==
    /\ NoDuplicates(rsFetched)
    /\ NoDuplicates([i \in 1..Len(result) |-> result[i].BasePath])

\* C5: a base whose narinfo was fetched is popped a second time.
C5_Witness_PoppedAgain ==
    rsPc = "loop" /\ toVisit # <<>> /\ Head(toVisit) \in Range(rsFetched)

\* discoverDependencies has returned, with a result or with an error.
RSDone == rsPc \in { "returned", "failed" }

\* The number of times the narinfo of b was fetched and b expanded.
Expansions(b) == Cardinality({ i \in DOMAIN rsFetched : rsFetched[i] = b })

\* C21: discoverDependencies returns for every reference graph over the
\* bases, with cycles and self-references, and expands no base twice.
C21_ResolverTerminates ==
    /\ <>RSDone
    /\ [](\A b \in Bases : Expansions(b) <= 1)

\* C21: the resolver has returned a path that references itself and two
\* paths that reference each other.
C21_Witness_ReturnedOnCycle ==
    /\ rsPc = "returned"
    /\ \E b \in ResultBases : b \in graph[b]
    /\ \E a, b \in ResultBases : a # b /\ a \in graph[b] /\ b \in graph[a]

\* ------------------------------------------------- claims on one path

\* Worker w has returned from f().
Returned(w) == worker[w].pc \in { "recv", "report" } /\ worker[w].sp # NoStorePath

\* The download of w's item arrived and its decompression started.
Decompressed(w) ==
    /\ ~NarGet(nars, worker[w].sp.NarURL).neterr
    /\ Decompress(worker[w].sp.Compression, NarGet(nars, worker[w].sp.NarURL).body).err = ""

\* The decompressed bytes B of w's item.
WholeStream(w) == StreamOf(nars, worker[w].sp)

\* The bytes of B that w's extractor has read.
ReadSoFar(w) == SubSeq(WholeStream(w), 1, worker[w].x.rd.pos)

\* Extract() of w's item returned nil.
Extracted(w) ==
    worker[w].x.top # <<>> /\ worker[w].x.stack = <<>> /\ worker[w].x.err = ""

\* C2: after a call that returned success dest exists and temp does not; after
\* a call that returned an error temp does not exist and dest was not created
\* by the call.
C2_AtomicPromotion ==
    \A w \in DOMAIN worker :
        Returned(w) =>
            IF worker[w].err = ""
            THEN Exists(fs, DestPath(worker[w].sp)) /\ ~Exists(fs, TempPath(worker[w].sp))
            ELSE ~Exists(fs, TempPath(worker[w].sp)) /\ ~worker[w].renamed

\* C6 as stated: the call fails if and only if the hash of the whole
\* decompressed stream differs from the NarHash of the item.
C6_FailsIffStreamHashDiffers ==
    \A w \in DOMAIN worker :
        (Returned(w) /\ Decompressed(w)) =>
            (worker[w].err # "" <=> HashText(WholeStream(w)) # worker[w].sp.NarHash)

\* The hash h of the bytes read decides the call of w as C6, amended, says.
HashDecides(w, h) ==
    /\ worker[w].err = "" => (Extracted(w) /\ h = worker[w].sp.NarHash)
    /\ worker[w].err = "hash mismatch" <=> (Extracted(w) /\ h # worker[w].sp.NarHash)

\* C6 as amended: the call succeeds only if extraction succeeded and the hash
\* of the bytes the extractor read (a prefix of the decompressed stream, of
\* NarSize bytes at most) equals the NarHash of the item; and it fails with a
\* hash mismatch if and only if extraction succeeded and that hash differs.
C6_FailsIffReadHashDiffers ==
    \A w \in DOMAIN worker :
        (Returned(w) /\ Decompressed(w)) => HashDecides(w, HashText(ReadSoFar(w)))

\* C6: a call succeeded on a stream that goes on after the bytes read, the
\* hash of the whole stream not being the NarHash.
C6_Witness_SucceededWithBytesLeft ==
    \E w \in DOMAIN worker :
        /\ Returned(w) /\ worker[w].err = "" /\ worker[w].renamed
        /\ worker[w].x.rd.pos < Len(WholeStream(w))
        /\ HashText(WholeStream(w)) # worker[w].sp.NarHash

\* C7: the extractor and the hasher of an item never receive more bytes than
\* its NarSize.
C7_NeverMoreThanNarSize ==
    \A w \in DOMAIN worker : worker[w].x.rd.pos <= Max(worker[w].sp.NarSize, 0)

\* C7: an extraction stopped at NarSize bytes of a stream that is longer.
C7_Witness_CutAtNarSize ==
    \E w \in DOMAIN worker :
        /\ worker[w].sp.NarSize > 0
        /\ worker[w].x.rd.pos = worker[w].sp.NarSize
        /\ Len(WholeStream(w)) > worker[w].sp.NarSize
        /\ worker[w].x.err # ""

\* ------------------------------------------------- claims on the program

\* The narinfo the substituters serve for the base of sp passes
\* verifyNarInfoSignature under a key of knownKeys, and sp is what fetchNarInfo
\* makes of that narinfo.
NarInfoVerified(sp, scan, r) ==
    /\ r.err = "" /\ r.sp = sp
    /\ verifyNarInfoSignature(scan.narInfo) = ""
    /\ MapGet(scan.narInfo, <<"NarHash">>) = sp.NarHash

\* The body of the narinfo that fetchNarInfo obtains for base.
NarInfoBody(base) ==
    HttpGet(cache, NarInfoURL(substituters[LoopEnd(cache, HashOf(base))], HashOf(base))).body

\* Worker w is at the rename of base b, the narinfo of b verified and the hash
\* of the bytes its extractor read equal to the NarHash of that narinfo.
RenamesVerified(w, b) ==
    /\ worker[w].pc = "rename"
    /\ worker[w].sp.BasePath = b
    /\ NarInfoVerified(worker[w].sp, ScanLines(NoScan, NarInfoBody(b), <<>>),
                       fetchNarInfo(b, cache))
    /\ HashText(ReadSoFar(w)) = worker[w].sp.NarHash

\* The entries at or beneath the store path of base b that a step writes.
WrittenUnder(b) ==
    { q \in DOMAIN fs' : q # <<>> /\ q[1] = b /\ (q \notin DOMAIN fs \/ fs[q] # fs'[q]) }

\* C1: a step creates or changes something at STORE_ROOT/<base> only as the
\* rename of a worker whose item carries a narinfo that passed
\* verifyNarInfoSignature under a trusted key, the hash of the bytes its
\* extractor consumed being the NarHash of that narinfo.
C1_PromotedOnlyIfVerified ==
    [][\A b \in Bases :
          WrittenUnder(b) # {} => \E w \in DOMAIN worker : RenamesVerified(w, b)]_vars

\* C1: two workers are past their renames, both store paths in place.
C1_Witness_TwoPromoted ==
    \E w1, w2 \in DOMAIN worker :
        /\ w1 # w2 /\ worker[w1].renamed /\ worker[w2].renamed
        /\ Exists(fs, DestPath(worker[w1].sp)) /\ Exists(fs, DestPath(worker[w2].sp))

\* ------------------------------------------------- claims on main

\* C11: the program ends with exit code 0 only if neither discovery nor the
\* pipeline returned an error for a requested path; if one did (main logged
\* it), the exit code is not 0.
C11_ExitCodeTellsFailure ==
    Terminated => (ExitCode = 0 => logged = <<>>)

\* ------------------------------------------------- claims on the pool

\* destPath, as the producer prints it.
DestLine(sp) == nixStore \o sp.BasePath

\* The lines of a closure, in the order of the resolver's sequence.
Lines(paths) == [i \in 1..Len(paths) |-> DestLine(paths[i])]

\* The last call of fetchAndManifestStorePaths has returned nil.
ReturnedNil ==
    prods # <<>> /\ mainPc \in { "next", "discover", "exit" } /\ errors = <<>>

\* The producer of the call that returned has printed every line and closed
\* the channel; stdout, when this was the first call, holds the lines of the
\* closure and nothing else.
AllPrinted ==
    /\ prods[Len(prods)].pc = "closed"
    /\ prods[Len(prods)].i = Len(prods[Len(prods)].paths) + 1
    /\ Len(prods) = 1 => stdout = Lines(prods[1].paths)

\* Whatever a step adds to stdout is the line of the next path of one
\* producer, which moves on by one path; and no producer moves otherwise.
PrintsNext ==
    /\ stdout' # stdout =>
          \E k \in DOMAIN prods :
             /\ prods[k].i <= Len(prods[k].paths)
             /\ stdout' = Append(stdout, DestLine(prods[k].paths[prods[k].i]))
             /\ prods' = [prods EXCEPT ![k].i = prods[k].i + 1, ![k].pc = "send"]
    /\ \A k \in DOMAIN prods : prods'[k].i # prods[k].i => stdout' # stdout

\* C12: when fetchAndManifestStorePaths returns nil, its producer has written
\* to stdout one line STORE_ROOT/<base> for each path of the closure, in the
\* order of the resolver's sequence, whatever the order in which the workers
\* finished, and all of them before the return.
C12_OneLinePerPathInOrder ==
    [](ReturnedNil => AllPrinted) /\ [][PrintsNext]_vars

\* C12: a call on a closure of three paths returned nil, the last path of the
\* closure in place.
C12_Witness_ThreeLines ==
    /\ ReturnedNil /\ Len(prods) = 1 /\ Len(prods[1].paths) = 3
    /\ Len(stdout) = 3
    /\ Exists(fs, DestPath(prods[1].paths[3]))

\* ------------------------------------------------- claims on a failed discovery

\* The resolver is about to fetch the narinfo of a base, which is refused.
FetchRefused ==
    /\ rsPc = "loop" /\ toVisit # <<>>
    /\ Head(toVisit) \notin visited
    /\ ~StatOk(fs, << Head(toVisit) >>)
    /\ fetchNarInfo(Head(toVisit), cache).err # ""

\* C22: when the narinfo of a base that the resolver visits is refused, the
\* resolver returns an error and no result; from the call of the resolver to
\* the logging of its error nothing is created under the store root, no
\* worker runs and no NAR is requested; main then starts no pipeline and goes
\* on with the arguments left.
C22_FailedDiscoveryLeavesNoTrace ==
    /\ [][FetchRefused => (rsPc' = "failed" /\ result' = <<>>)]_vars
    /\ [][(mainPc = "discover" /\ rsPc # "returned") =>
            (fs' = fs /\ worker' = worker /\ Len(prods') = Len(prods))]_vars
    /\ [][(mainPc = "discover" /\ rsPc = "failed") =>
            (mainPc' = "next" /\ args' = args)]_vars
    /\ [](mainPc = "next" /\ args # <<>> => ENABLED MainNext)

\* C22: the discovery of the first argument failed after a narinfo had been
\* accepted, and so did the discovery of the second argument, started after.
C22_Witness_SecondRequestTried ==
    /\ mainPc = "discover" /\ rsPc = "failed"
    /\ Len(rsFetched) >= 2
    /\ Len(logged) = 1 /\ logged[1].what = "discovery"
    /\ fs = RootOnly

\* ------------------------------------------------- claims on a second run

\* The first run ended with exit code 0 and logged no error.
FirstRunSucceeded ==
    before # <<>> /\ before[1].logged = <<>> /\ before[1].code = 0

\* A step in which a worker performs narClient.Get.
Downloads ==
    /\ mainPc = "wait"
    /\ \E w \in DOMAIN worker :
          worker[w].pc = "get" /\ worker'[w].pc \in { "extract", "cleanup" }

\* C13: a second run on the same input and caches, after a first run in which
\* every requested path succeeded, performs no NAR download and leaves the
\* store directory as the first run left it.
C13_SecondRunDoesNothing ==
    [][FirstRunSucceeded => (~Downloads /\ fs' = fs)]_vars

\* Call k of fetchAndManifestStorePaths has returned.
CallReturned(k) == k < Len(prods) \/ mainPc \in { "next", "discover", "exit" }

\* The producer of call k stands at ch <- f with a path to send.
AtSend(k) == prods[k].pc = "send" /\ prods[k].i <= Len(prods[k].paths)

\* C16: once fetchAndManifestStorePaths has returned, after a failure or not,
\* its producer is not left at a send: the channel was drained, so the
\* producer could finish and close it.
C16_NoSendLeftBlocked ==
    \A k \in DOMAIN prods : CallReturned(k) => ~AtSend(k)

\* The store path of base b is on disk (os.Lstat succeeds).
Present(dir, b) == Exists(dir, << b >>)

\* C17: a step puts a store path in place only when each of the references
\* its narinfo publishes is on disk.
C17_PromotedAfterReferences ==
    [][\A b \in Bases :
          (~Present(fs, b) /\ Present(fs', b)) =>
              \A r \in graph[b] : Present(fs', r)]_vars

\* The workers of the pool before and after a step.
SameWorkers == (DOMAIN worker) \cap (DOMAIN worker')

\* Worker w is inside f(), between its first step and its return.
InFlight(w) == worker[w].pc \in { "get", "extract", "verify", "rename", "cleanup" }

\* Worker w returned at the ctx check, the item it had received not started.
LeftAtCheck(w) ==
    /\ worker[w].pc = "exited" /\ worker[w].sp # NoStorePath
    /\ worker[w].err = "" /\ ~worker[w].renamed /\ worker[w].x = NoExtractor

\* C18: once the context is cancelled no worker starts f() on an item: a
\* worker that comes to its ctx check returns, so only the items whose f()
\* had begun before the cancel are still processed.
C18_NoStartAfterCancel ==
    [][\A w \in SameWorkers :
          /\ (worker[w].pc # "get" /\ worker'[w].pc = "get") => ~cancelled
          /\ (cancelled /\ worker[w].pc = "ctx" /\ worker'[w].pc # "ctx")
                => worker'[w].pc = "exited"]_vars

\* C18: the context is cancelled, a worker has returned at its ctx check
\* without starting the item it had received, and another is still inside
\* the f() it had begun.
C18_Witness_OneLeftOneInFlight ==
    /\ cancelled /\ errors # <<>>
    /\ \E w1, w2 \in DOMAIN worker : LeftAtCheck(w1) /\ InFlight(w2)

\* The call of fetchAndManifestStorePaths has returned to main.
PoolReturned == prods # <<>> /\ mainPc \in { "next", "exit" }

\* The closure holds a path whose fetch fails.
SomeItemFails == \E i \in 1..Len(result) : NarGet(nars, result[i].NarURL).neterr

\* C19: fetchAndManifestStorePaths returns, whatever the length of the
\* closure and whichever of its paths fail; a worker that has an error to
\* report can always send it; and the error returned (which main logs) is
\* non-nil if and only if the processing of some path fails.
C19_ReturnsErrorIffItemFails ==
    /\ [](\A w \in DOMAIN worker : worker[w].pc = "report" => ENABLED WReport(w))
    /\ [](PoolReturned => (logged # <<>> <=> SomeItemFails))
    /\ <>PoolReturned

\* C19: a call on a closure longer than the pool has returned an error.
C19_Witness_LongClosureReturned ==
    /\ PoolReturned /\ logged # <<>>
    /\ Len(prods[1].paths) > poolLimit

\* ------------------------------------------------- claims on the fallback

\* Substituter i answers the request for the narinfo with 200.
Answers200(i) ==
    \E r \in { HttpGet(cache, NarInfoURL(substituters[i], HashOf(NIBase))) } :
        ~r.neterr /\ r.status = 200

\* Substituter i is the first in the configured order that answers 200.
FirstToAnswer(i) == Answers200(i) /\ \A j \in 1..(i - 1) : ~Answers200(j)

\* The errors of fetchNarInfo that say that no narinfo was obtained.
NoNarInfo == { "transport error", "failed to fetch narinfo" }

\* What fetchNarInfo returns when the narinfo it reads is the answer of
\* substituter i.
ReadFrom(i) ==
    CheckNarInfo(NIBase,
                 ScanLines(NoScan,
                           HttpGet(cache, NarInfoURL(substituters[i], HashOf(NIBase))).body,
                           substituters[i]))

\* C20: fetchNarInfo returns what the answer of the first substituter that
\* answers 200 gives, the NAR URL starting with the base URL of that
\* substituter; when none answers 200, whether by transport errors or by
\* other statuses, it returns an error saying so.
C20_FirstAnswerIsUsed ==
    niPc = "done" =>
       /\ (\A i \in DOMAIN substituters : ~Answers200(i)) => niRes.err \in NoNarInfo
       /\ \A i \in DOMAIN substituters :
             FirstToAnswer(i) =>
                /\ niRes = ReadFrom(i)
                /\ niRes.err \notin NoNarInfo
                /\ niRes.err = "" =>
                      SubSeq(niRes.sp.NarURL, 1, Len(substituters[i]) + 1)
                         = substituters[i] \o <<"/">>

\* C20: the first substituter failed in transport, the second answered 200
\* and its narinfo was accepted.
C20_Witness_FellBackToSecond ==
    /\ niPc = "done" /\ niMode = "second_neterr"
    /\ niRes.err = "" /\ Head(niRes.sp.NarURL) = "s2"

\* ------------------------------------------------- claims on the extractor

\* The extractor of w was created and reads the serialisation of a tree.
HasTree(w) ==
    /\ worker[w].x.top # <<>>
    /\ worker[w].sp.NarURL \in DOMAIN nars
    /\ nars[worker[w].sp.NarURL].body.arch <= Len(Trees)

\* The tree that w's extractor reads.
TreeOf(w) == Trees[nars[worker[w].sp.NarURL].body.arch]

\* Extract() of w's item has returned.
Finished(w) == worker[w].x.top # <<>> /\ worker[w].x.stack = <<>>

\* Nothing but the tree stops the extraction of w's item: the whole archive
\* is within NarSize and the temporary path was free.
Unhindered(w) ==
    /\ worker[w].sp.NarSize >= Len(Archives[nars[worker[w].sp.NarURL].body.arch])
    /\ worker[w].x.err # "failed to create directory"

\* a < b, byte-lexicographically: at the first position where they differ a
\* has ended, or has the smaller byte.
LexLess(a, b) ==
    \E k \in 1..(Len(a) + 1) :
       /\ k <= Len(b)
       /\ \A j \in 1..(k - 1) : j <= Len(b) /\ a[j] = b[j]
       /\ (k > Len(a) \/ a[k] < b[k])

RECURSIVE Increasing(_)
\* In every directory of tree t the names are strictly increasing.
Increasing(t) ==
    /\ \A i \in 1..(Len(t.entries) - 1) : LexLess(t.entries[i].name, t.entries[i + 1].name)
    /\ \A i \in 1..Len(t.entries) : Increasing(t.entries[i].node)

\* A name that may be a path component.
ValidName(name) ==
    /\ name \notin { <<>>, <<46>>, <<46, 46>> }
    /\ 47 \notin { name[i] : i \in 1..Len(name) }

RECURSIVE AllNamesValid(_)
\* Every entry name of tree t may be a path component.
AllNamesValid(t) ==
    \A i \in 1..Len(t.entries) :
       ValidName(t.entries[i].name) /\ AllNamesValid(t.entries[i].node)

\* C14: an extraction succeeds only if in every directory of the archive each
\* name is strictly greater, in byte order, than the one before it; an entry
\* whose name is not (equal names included) is rejected as unsorted, before
\* anything is created for it; and no entry is rejected as unsorted in an
\* archive whose directories are all in order, whatever its subdirectories hold.
C14_EntriesStrictlyIncreasing ==
    \A w \in DOMAIN worker :
        HasTree(w) =>
            /\ Extracted(w) => Increasing(TreeOf(w))
            /\ worker[w].x.err = "path components not sorted" => ~Increasing(TreeOf(w))
            /\ (Finished(w) /\ Unhindered(w) /\ AllNamesValid(TreeOf(w))
                    /\ ~Increasing(TreeOf(w)))
                  => worker[w].x.err = "path components not sorted"

\* C14: the archive of a directory with a subdirectory, the names of the
\* subdirectory greater than the next name of the parent, was extracted.
C14_Witness_SubdirectoryExtracted ==
    \E w \in DOMAIN worker :
        /\ HasTree(w) /\ Extracted(w)
        /\ \E i \in 1..(Len(TreeOf(w).entries) - 1) :
              /\ TreeOf(w).entries[i].node.entries # <<>>
              /\ LexLess(TreeOf(w).entries[i + 1].name,
                         TreeOf(w).entries[i].node.entries[1].name)

\* C15: nothing is ever created in the store directory under a name that is
\* empty, ".", ".." or contains "/"; an archive with such an entry name is
\* never extracted with success, and the extraction that reaches the entry
\* fails there with an error.
C15_InvalidNameCreatesNothing ==
    /\ \A q \in DOMAIN fs : \A i \in 2..Len(q) : ValidName(q[i])
    /\ \A w \in DOMAIN worker :
          HasTree(w) =>
              /\ Extracted(w) => AllNamesValid(TreeOf(w))
              /\ (Finished(w) /\ Unhindered(w) /\ Increasing(TreeOf(w))
                      /\ ~AllNamesValid(TreeOf(w)))
                    => worker[w].x.err = "invalid path component"

\* C15: an extraction stopped at an entry with an empty name, the entry before
\* it created.
C15_Witness_RejectedAfterFirstEntry ==
    \E w \in DOMAIN worker :
        /\ HasTree(w) /\ Finished(w)
        /\ worker[w].x.err = "invalid path component"
        /\ \E i \in 2..Len(TreeOf(w).entries) :
              /\ TreeOf(w).entries[i].name = <<>>
              /\ Exists(fs, Append(TempPath(worker[w].sp), TreeOf(w).entries[1].name))

\* ------------------------------------------------- claims on negative lengths

\* The archive that w's extractor reads carries a negative length: of a
\* string token (the third broken stream) or of file contents (the fifth).
ReadsNegativeLength(w) ==
    /\ worker[w].x.top # <<>>
    /\ nars[worker[w].sp.NarURL].body.arch \in { Len(Trees) + 3, Len(Trees) + 5 }

\* C23: the extraction of an archive that carries a negative length ends
\* with an error: it does not panic and it does not succeed.
C23_NegativeLengthRejected ==
    \A w \in DOMAIN worker :
       (ReadsNegativeLength(w) /\ Finished(w)) => worker[w].x.err \notin { "", "panic" }

\* ------------------------------------------------- claims on the lines printed

\* C24: a line is written to stdout only for a store path that has been put
\* in place: the step that prints STORE_ROOT/<base> finds <base> on disk.
C24_PrintedAfterPromotion ==
    [][stdout' # stdout =>
          \E b \in Bases :
             /\ stdout' = Append(stdout, nixStore \o b)
             /\ Present(fs, b)]_vars

\* ------------------------------------------------- claims on confinement

\* The entries that a step creates.
Created == (DOMAIN fs') \ (DOMAIN fs)

\* The extractor of w has not made its top node yet.
TopPending(w) ==
    \E i \in DOMAIN worker[w].x.stack :
       \/ worker[w].x.stack[i].op = "magic"
       \/ worker[w].x.stack[i].op = "objtype" /\ worker[w].x.stack[i].path = <<>>

\* q is the target of w's extraction, or lies beneath it with nothing but
\* directories between the target and q.
Beneath(w, q) ==
    LET target == TempPath(worker[w].sp)
    IN \/ q = target
       \/ /\ IsPrefix(target, q)
          /\ \A k \in Len(target)..(Len(q) - 1) :
                /\ SubSeq(q, 1, k) \in DOMAIN fs
                /\ fs[SubSeq(q, 1, k)] = "dir"

\* A target that exists before its top node is made stops the extraction
\* there: what lies beneath a target was made by the extraction itself.
TargetMadeHere(w) ==
    (TopPending(w) /\ Exists(fs, TempPath(worker[w].sp))) =>
        /\ Created \subseteq { <<>> }
        /\ worker'[w].x.stack = <<>> => worker'[w].x.err # ""
        /\ worker'[w].x.stack # <<>> => \E i \in DOMAIN worker'[w].x.stack :
                                            worker'[w].x.stack[i].op = "objtype"
                                            /\ worker'[w].x.stack[i].path = <<>>

\* C25 as stated: whatever a step of an extraction creates is the target or
\* lies beneath it, through directories that the extraction made.
C25_CreatedWithinTarget ==
    [][\A w \in DOMAIN worker :
          worker[w].pc = "extract" =>
             /\ \A q \in Created : Beneath(w, q)
             /\ TargetMadeHere(w)]_vars

\* C25 as amended: whatever a step of an extraction creates is the target, or
\* lies beneath it through directories that the extraction made, or is the
\* missing parent of the target (the store root), which Extract makes before
\* the top node.
C25_CreatedWithinTargetOrParent ==
    [][\A w \in DOMAIN worker :
          worker[w].pc = "extract" =>
             /\ \A q \in Created : q = <<>> \/ Beneath(w, q)
             /\ <<>> \in Created => TopPending(w)
             /\ TargetMadeHere(w)]_vars

\* C25: a file stands in a subdirectory of a target under an extraction.
C25_Witness_NestedEntryCreated ==
    \E w \in DOMAIN worker :
       /\ worker[w].pc \in { "extract", "verify" }
       /\ Exists(fs, TempPath(worker[w].sp) \o << NameA, NameC >>)

\* ------------------------------------------------- claims on the return of the pool

\* main is outside fetchAndManifestStorePaths, a call of it having returned.
AfterReturn == prods # <<>> /\ mainPc \in { "next", "discover", "exit" }

\* Worker w takes an item in this step.
Takes(w) == worker[w].pc = "recv" /\ worker'[w].pc = "ctx"

\* An item is taken from the producer of the running call, which offers it at
\* its index, by one worker alone.
TakenOnce ==
    \A w \in SameWorkers :
       Takes(w) =>
          /\ prods[Len(prods)].pc = "send" /\ prods'[Len(prods)].pc = "print"
          /\ worker'[w].sp = prods[Len(prods)].paths[prods[Len(prods)].i]
          /\ \A v \in SameWorkers \ { w } : worker'[v] = worker[v]

\* The index of a producer moves forward by one, after its item was taken.
IndexAdvances ==
    \A k \in DOMAIN prods :
       \/ prods'[k].i = prods[k].i
       \/ prods'[k].i = prods[k].i + 1 /\ prods[k].pc = "print"

\* C26: once fetchAndManifestStorePaths has returned every worker of the call
\* has exited, so none is inside f(); until the next call no step touches the
\* workers or the store directory; and each item is handed to one worker,
\* once.
C26_QuiescentOnReturn ==
    /\ [](AfterReturn => \A w \in DOMAIN worker : worker[w].pc = "exited")
    /\ [][(AfterReturn /\ mainPc' # "wait") => (worker' = worker /\ fs' = fs)]_vars
    /\ [][TakenOnce /\ IndexAdvances]_vars

\* C26: a call has returned an error, a worker of it having put its store
\* path in place.
C26_Witness_ReturnedAfterMixedOutcome ==
    /\ AfterReturn /\ errors # <<>>
    /\ \E w \in DOMAIN worker : worker[w].renamed
====
